---------------------------- MODULE Spec2Model ----------------------------
(***************************************************************************)
(* Vehicle dynamics of the micromachines car: CarPhysics (the dynamics     *)
(* model) and CarController.update (the per-frame pipeline: dynamics,      *)
(* collision, boundary, gravity, suspension, trail trigger).               *)
(*                                                                         *)
(* Numbers are fixed point, rounded to the nearest quantum:                *)
(*   time                 1e-4 s      (0.03 s = 300)                       *)
(*   speeds               1e-4 m/s    (25 m/s = 250000)                    *)
(*   accelerations        1e-2 m/s^2  (15 m/s^2 = 1500)                    *)
(*   lengths, positions   1e-4 m      (100 m = 1000000)                    *)
(*   driftFactor          1e-4        (1.0 = 10000)                        *)
(*   steeringAngle        1e-6 rad    (0.10 rad = 100000)                  *)
(*   heading, slip angle  1e-4 rad,  yaw rate 1e-4 rad/s                   *)
(* Dimensionless factors of the source (0.5, 0.7, 1.4, 3.2 ...) are kept   *)
(* in tenths and divided out where they are used.                          *)
(***************************************************************************)
EXTENDS Integers, Sequences, FiniteSets, TLC

----------------------------------------------------------------------------
(* Arithmetic helpers (Math.abs, Math.sign, Math.min, Math.max, rounding). *)

Abs(x) == IF x < 0 THEN -x ELSE x

Sign(x) == IF x > 0 THEN 1 ELSE IF x < 0 THEN -1 ELSE 0

Min(a, b) == IF a < b THEN a ELSE b

Max(a, b) == IF a > b THEN a ELSE b

\* n / d rounded to the nearest integer, halves away from zero (d > 0).
RoundDiv(n, d) ==
    IF n >= 0 THEN (n + d \div 2) \div d ELSE -(((-n) + d \div 2) \div d)

----------------------------------------------------------------------------
(* CarPhysics: constants (CarPhysics.ts lines 19-41).                      *)

MAX_SPEED == 250000

MAX_REVERSE_SPEED == -100000

ACCELERATION_RATE == 1500

BRAKING_RATE == 2000

DECELERATION_RATE == 800

MAX_STEERING_ANGLE == 100000

STEERING_SPEED == 32

STEERING_RESET_SPEED == 8

DRIFT_TRACTION_LOSS == 7

DRIFT_STEERING_FACTOR == 14

MAX_DRIFT_FACTOR == 10000

DRIFT_BUILDUP_RATE == 5

DRIFT_RECOVERY_RATE == 3

MAX_LATERAL_VELOCITY == 60000

LATERAL_FRICTION == 15

LATERAL_TRANSFER_FACTOR == 5

OFF_TRACK_MAX_SPEED == 150000

OFF_TRACK_TRACTION == 7

OFF_TRACK_STEERING_FACTOR == 8

\* |velocity| above which the drift input takes effect (5 m/s).
DRIFT_MIN_SPEED == 50000

\* The CarInput interface: six booleans.
CarInput ==
    [forward : BOOLEAN, backward : BOOLEAN, left : BOOLEAN,
     right : BOOLEAN, brake : BOOLEAN, drift : BOOLEAN]

NoInput ==
    [forward |-> FALSE, backward |-> FALSE, left |-> FALSE,
     right |-> FALSE, brake |-> FALSE, drift |-> FALSE]

\* A CarPhysics object right after construction (all fields 0).
NewCarPhysics ==
    [velocity |-> 0, acceleration |-> 0, steeringAngle |-> 0,
     lateralVelocity |-> 0, driftFactor |-> 0, slideDirection |-> 0,
     yawRate |-> 0, slipAngle |-> 0]


----------------------------------------------------------------------------
(* The part of CarPhysics the controller reads through getYawRate() and    *)
(* getSlipAngle().  CarPhysics.ts holds neither; the two values are kept   *)
(* as fields that update() refreshes, following the design's description   *)
(* of the dynamics model.  What that description leaves open (the size of  *)
(* the counter-steer correction, the decay of the slip angle at rest) is   *)
(* an input of update(): u.counter and u.slipKeep.                         *)

\* Math.atan(z) for 0 <= z <= 1, z and the result in 1e-4.
AtanUnit(z) == RoundDiv(z * (7854 + RoundDiv(2730 * (10000 - z), 10000)), 10000)

\* Math.atan2(y, x) for x > 0, in 1e-4 rad.
Atan2(y, x) ==
    IF Abs(y) <= x
    THEN Sign(y) * AtanUnit(RoundDiv(Abs(y) * 10000, x))
    ELSE Sign(y) * (15708 - AtanUnit(RoundDiv(x * 10000, Abs(y))))

\* steeringAngle (1e-6 rad) times a speed (1e-4 m/s), in 1e-4 rad/s.
SteerTimesSpeed(steeringAngle, speed) ==
    RoundDiv(RoundDiv(steeringAngle, 100) * RoundDiv(speed, 100), 100)

YawRateOf(velocity, steeringAngle, lateralVelocity, driftFactor, steeringDirection, u) ==
    LET direct == SteerTimesSpeed(steeringAngle, Abs(velocity)) * Sign(velocity)
        counterSteer == steeringDirection # 0 /\ lateralVelocity # 0
                        /\ steeringDirection # Sign(lateralVelocity)
        speedNorm == RoundDiv(Abs(velocity), 25)
        driftTerm ==
            IF driftFactor <= 500 THEN 0
            ELSE IF counterSteer
                 THEN -Sign(lateralVelocity)
                          * RoundDiv(RoundDiv(u.counter * driftFactor, 10000) * speedNorm, 10000)
                 ELSE RoundDiv(SteerTimesSpeed(steeringAngle, Abs(velocity)) * driftFactor, 10000)
    IN  direct + driftTerm

SlipAngleOf(velocity, lateralVelocity, slipAngle, u) ==
    IF velocity # 0
    THEN Atan2(lateralVelocity, Abs(velocity))
    ELSE RoundDiv(slipAngle * u.slipKeep, 10)

----------------------------------------------------------------------------
(* CarPhysics.update(deltaTime, input, isOffTrack), CarPhysics.ts 43-207.  *)
(* p is the object before the call; the result is the object after it.     *)

\* Faulty variant: the build-up is not capped at MAX_DRIFT_FACTOR.
DriftFactorStepNoCeiling(driftFactor, drifting, deltaTime) ==
    IF drifting
    THEN driftFactor + DRIFT_BUILDUP_RATE * deltaTime
    ELSE Max(0, driftFactor - DRIFT_RECOVERY_RATE * deltaTime)

\* Faulty variant: the recovery is not stopped at 0.
DriftFactorStepNoFloor(driftFactor, drifting, deltaTime) ==
    IF drifting
    THEN Min(MAX_DRIFT_FACTOR, driftFactor + DRIFT_BUILDUP_RATE * deltaTime)
    ELSE driftFactor - DRIFT_RECOVERY_RATE * deltaTime

\* Lines 58-62 and 99-102: the drift accumulator.
DriftFactorStep(driftFactor, drifting, deltaTime) ==
    IF drifting
    THEN Min(MAX_DRIFT_FACTOR, driftFactor + DRIFT_BUILDUP_RATE * deltaTime)
    ELSE Max(0, driftFactor - DRIFT_RECOVERY_RATE * deltaTime)

\* Faulty variant: the drift branch is taken at the threshold speed itself.
DriftEngagedAtThreshold(velocity, input) ==
    input.drift /\ Abs(velocity) >= DRIFT_MIN_SPEED

\* Line 59: the drift branch is taken.
DriftEngaged(velocity, input) ==
    input.drift /\ Abs(velocity) > DRIFT_MIN_SPEED

\* Faulty variant: only the negative side is clamped.
ClampLateralBelowOnly(l) == Max(-MAX_LATERAL_VELOCITY, l)

\* Lines 83-87: the lateral velocity clamp.
ClampLateral(l) == Max(-MAX_LATERAL_VELOCITY, Min(MAX_LATERAL_VELOCITY, l))

\* Lines 69-112: lateral (slide) velocity; df is the driftFactor just updated.
LateralStep(p, drifting, steeringDirection, df, deltaTime) ==
    IF drifting
    THEN LET steered ==
                 LET lateralForce ==
                         RoundDiv(RoundDiv(Abs(p.velocity) * LATERAL_TRANSFER_FACTOR, 10) * df,
                                  10000)
                     l1 == p.lateralVelocity
                             + steeringDirection * RoundDiv(lateralForce * deltaTime, 10000)
                     l2 == IF df < 2000 /\ Abs(l1) < 10000
                           THEN l1 + steeringDirection * 20000
                           ELSE l1
                 IN  ClampLateral(l2)
             normalizationRate == RoundDiv(8 * deltaTime, 10)
         IN  IF steeringDirection # 0 THEN steered
             ELSE IF p.lateralVelocity > 0 THEN p.lateralVelocity - normalizationRate
             ELSE IF p.lateralVelocity < 0 THEN p.lateralVelocity + normalizationRate
             ELSE p.lateralVelocity
    ELSE LET frictionForce == RoundDiv(LATERAL_FRICTION * deltaTime, 10)
         IN  IF p.lateralVelocity > 0 THEN Max(0, p.lateralVelocity - frictionForce)
             ELSE IF p.lateralVelocity < 0 THEN Min(0, p.lateralVelocity + frictionForce)
             ELSE p.lateralVelocity

\* Lines 45-51, 64-67, 114-121: the acceleration chosen for this step.
AccelerationStep(p, drifting, input) ==
    LET a0 == IF input.forward THEN ACCELERATION_RATE
              ELSE IF input.backward THEN -ACCELERATION_RATE
              ELSE 0
    IN  IF drifting
        THEN IF p.velocity > DRIFT_MIN_SPEED
             THEN a0 - RoundDiv(BRAKING_RATE * 15, 100)
             ELSE a0
        ELSE IF input.brake /\ p.velocity > 0 THEN -BRAKING_RATE
        ELSE IF input.brake /\ p.velocity < 0 THEN BRAKING_RATE
        ELSE a0

\* Faulty variant: only the reverse limit is enforced.
ClampSpeedReverseOnly(velocity, isOffTrack) ==
    IF velocity < MAX_REVERSE_SPEED THEN MAX_REVERSE_SPEED ELSE velocity

\* Lines 138-146: the speed clamp.
ClampSpeed(velocity, isOffTrack) ==
    LET maxSpeed == IF isOffTrack THEN OFF_TRACK_MAX_SPEED ELSE MAX_SPEED
    IN  IF velocity > maxSpeed THEN maxSpeed
        ELSE IF velocity < MAX_REVERSE_SPEED THEN MAX_REVERSE_SPEED
        ELSE velocity

\* Lines 124-146: integrate, natural deceleration, clamp.
VelocityStep(velocity, acceleration, input, deltaTime, isOffTrack) ==
    LET v1 == velocity + RoundDiv(acceleration * deltaTime, 100)
        v2 == IF ~input.forward /\ ~input.backward /\ ~input.brake
              THEN IF v1 > 0 THEN Max(0, v1 - RoundDiv(DECELERATION_RATE * deltaTime, 100))
                   ELSE IF v1 < 0 THEN Min(0, v1 + RoundDiv(DECELERATION_RATE * deltaTime, 100))
                   ELSE v1
              ELSE v1
    IN  ClampSpeed(v2, isOffTrack)

\* Faulty variant: the off-track factor is not applied.
MaxSteeringAngleIgnoresTrack(df, isOffTrack) ==
    IF df > 0 THEN MAX_STEERING_ANGLE + RoundDiv(RoundDiv(MAX_STEERING_ANGLE, 1000) * 4 * df, 100)
    ELSE MAX_STEERING_ANGLE

\* Lines 171-183: the steering limit, widened by up to 40% in a drift and
\* tightened off track.
MaxSteeringAngle(df, isOffTrack) ==
    LET m0 == IF df > 0
              THEN MAX_STEERING_ANGLE + RoundDiv(RoundDiv(MAX_STEERING_ANGLE, 1000) * 4 * df, 100)
              ELSE MAX_STEERING_ANGLE
    IN  IF isOffTrack THEN RoundDiv(m0 * OFF_TRACK_STEERING_FACTOR, 10) ELSE m0

\* Lines 148-206: steering angle; v, lat, df are the values just updated.
SteeringStep(steeringAngle, v, lat, df, input, deltaTime, isOffTrack) ==
    LET steeringModifier ==
            IF df > 0
            THEN RoundDiv(DRIFT_STEERING_FACTOR * (10000 - Min(6000, RoundDiv(Abs(lat), 10))), 10)
            ELSE 10000
        turn == RoundDiv(STEERING_SPEED * steeringModifier * deltaTime, 1000)
        resetSpeed == IF df > 0 THEN RoundDiv(STEERING_RESET_SPEED * 100 * deltaTime, 2)
                      ELSE STEERING_RESET_SPEED * 100 * deltaTime
        s1 == IF input.left THEN steeringAngle + turn
              ELSE IF input.right THEN steeringAngle - turn
              ELSE IF steeringAngle > 0 THEN Max(0, steeringAngle - resetSpeed)
              ELSE IF steeringAngle < 0 THEN Min(0, steeringAngle + resetSpeed)
              ELSE steeringAngle
        maxSteeringAngle == MaxSteeringAngle(df, isOffTrack)
        s2 == IF s1 > maxSteeringAngle THEN maxSteeringAngle
              ELSE IF s1 < -maxSteeringAngle THEN -maxSteeringAngle
              ELSE s1
        f0 == Min(10000, RoundDiv(Abs(v) * 1000, RoundDiv(MAX_SPEED * 45, 1000)))
        speedFactor ==
            IF df > 0 THEN RoundDiv(f0 * (10000 - RoundDiv(DRIFT_TRACTION_LOSS * df, 10)), 10000)
            ELSE IF isOffTrack THEN RoundDiv(f0 * OFF_TRACK_TRACTION, 10)
            ELSE f0
    IN  IF Abs(v) < 20000 THEN RoundDiv(s2 * speedFactor, 10000) ELSE s2

\* Faulty variant: the two sides are swapped.
SteeringDirectionMirrored(input) ==
    IF input.left THEN 1 ELSE IF input.right THEN -1 ELSE 0

\* Lines 53-56: the steering direction of the slide, -1 for left.
SteeringDirection(input) ==
    IF input.left THEN -1 ELSE IF input.right THEN 1 ELSE 0

CarPhysicsUpdate(p, deltaTime, input, isOffTrack, u) ==
    LET steeringDirection == SteeringDirection(input)
        drifting == DriftEngaged(p.velocity, input)
        df == DriftFactorStep(p.driftFactor, drifting, deltaTime)
        acc == AccelerationStep(p, drifting, input)
        lat == LateralStep(p, drifting, steeringDirection, df, deltaTime)
        v == VelocityStep(p.velocity, acc, input, deltaTime, isOffTrack)
        st == SteeringStep(p.steeringAngle, v, lat, df, input, deltaTime, isOffTrack)
    IN  [velocity |-> v,
         acceleration |-> acc,
         steeringAngle |-> st,
         lateralVelocity |-> lat,
         driftFactor |-> df,
         slideDirection |-> IF drifting /\ steeringDirection # 0
                            THEN steeringDirection ELSE p.slideDirection,
         yawRate |-> YawRateOf(v, st, lat, df, steeringDirection, u),
         slipAngle |-> SlipAngleOf(v, lat, p.slipAngle, u)]

\* Faulty variant: the velocity is scaled but keeps its sign.
reverseVelocityNoFlip(p, factor) ==
    [p EXCEPT !.velocity = RoundDiv(p.velocity * factor, 10),
              !.lateralVelocity = RoundDiv(p.lateralVelocity * (-3), 10)]

\* Faulty variant: the lateral velocity keeps its sign.
reverseVelocityKeepsSlideSide(p, factor) ==
    [p EXCEPT !.velocity = RoundDiv(-p.velocity * factor, 10),
              !.lateralVelocity = RoundDiv(p.lateralVelocity * 3, 10)]

\* CarPhysics.reverseVelocity(factor), CarPhysics.ts 209-214; factor in tenths.
reverseVelocity(p, factor) ==
    [p EXCEPT !.velocity = RoundDiv(-p.velocity * factor, 10),
              !.lateralVelocity = RoundDiv(p.lateralVelocity * (-3), 10)]

----------------------------------------------------------------------------
(* Vector helpers standing for Math.sin, Math.cos and Vector3.normalize.   *)

RECURSIVE SqrtBetween(_, _, _)
SqrtBetween(n, lo, hi) ==
    IF lo >= hi THEN lo
    ELSE LET mid == (lo + hi + 1) \div 2
         IN  IF mid * mid <= n THEN SqrtBetween(n, mid, hi) ELSE SqrtBetween(n, lo, mid - 1)

\* Math.sqrt, rounded down (n < 2^31, so the root is below 46341).
Sqrt(n) == SqrtBetween(n, 0, 46340)

\* Math.sin on [0, pi], angle in 1e-4 rad, result in 1e-4 (Bhaskara's formula,
\* within 0.002 of the sine).
SinHalfTurn(y) ==
    LET q == RoundDiv(y * (31416 - y), 1000)
    IN  RoundDiv(16 * q * 100, RoundDiv(4934802 - 4 * q, 100))

Sin(x) ==
    LET r == x % 62832
    IN  IF r <= 31416 THEN SinHalfTurn(r) ELSE -SinHalfTurn(r - 31416)

Cos(x) == Sin(x + 15708)

\* Vector3.normalize of (x, y, z) given in 1e-4 m: a direction in 1e-4
\* (the zero vector stays zero: three.js divides by length || 1).
Normalize(v) ==
    LET len == Sqrt(v.x * v.x + v.y * v.y + v.z * v.z)
    IN  IF len = 0 THEN [x |-> 0, y |-> 0, z |-> 0]
        ELSE [x |-> RoundDiv(v.x * 10000, len),
              y |-> RoundDiv(v.y * 10000, len),
              z |-> RoundDiv(v.z * 10000, len)]

----------------------------------------------------------------------------
(* CarController (GameEngine.ts 215-836): constants.                       *)

offTrackSlowdown == 85

TRAIL_SPAWN_INTERVAL == 500

collisionDistance == 8000

GRAVITY == 2000

restLength == 3000

springConstant == 80

damperConstant == 10

carMass == 1

minSuspension == 500

maxSuspension == 4000

chassisToGroundRest == 1500

\* Line 365: the ceiling on the time step.
maxDeltaTime == 300

\* Line 760.
mapRadius == 1000000

\* Line 561: the clearance under which the car counts as grounded.
minDistance == 5000

\* Lines 568, 660: the downward rays start this far above the wheel.
rayStartAbove == 20000

\* Line 623: the collision rays start this far above the tentative position.
collisionRayAbove == 3000

Wheels == 0 .. 3

\* What a raycast that found nothing reports.
NoHit == -1

----------------------------------------------------------------------------
(* The world as the controller sees it in one frame.  The scene geometry   *)
(* is an input of the frame:                                               *)
(*   onTrack    mapBuilder.isPointOnTrack at the car's position            *)
(*   rays       per collision ray (forward, backward, left, right) the     *)
(*              distance of the first obstacle, or NoHit                   *)
(*   ground     per wheel, the terrain surface under the wheel: present or *)
(*              not, and its height y                                      *)
(*   trailHits  the rear wheels whose trail ray finds ground               *)

\* A downward ray from rayStartAbove over height y meets the surface g.
RayHits(g, y) == g.present /\ g.y <= y + rayStartAbove

\* Lines 363-383: the input snapshot; the brake is never pressed.
ControllerInputs == {i \in CarInput : ~i.brake}

\* checkCollisions (597-644): the probe's verdict for the tentative position.
\* dir is the heading in 1e-4; the result carries the nearest hit point.
checkCollisions(newPosition, dir, rays) ==
    LET dirs == [k \in 0 .. 3 |->
                    CASE k = 0 -> [x |-> dir.x, z |-> dir.z]
                      [] k = 1 -> [x |-> -dir.x, z |-> -dir.z]
                      [] k = 2 -> [x |-> -dir.z, z |-> dir.x]
                      [] OTHER -> [x |-> dir.z, z |-> -dir.x]]
        within == {k \in 0 .. 3 : rays[k] # NoHit /\ rays[k] < collisionDistance}
        nearest == CHOOSE k \in within :
                      \A j \in within : rays[k] < rays[j] \/ (rays[k] = rays[j] /\ k <= j)
    IN  IF within = {}
        THEN [hasCollision |-> FALSE, collisionPoint |-> [x |-> 0, y |-> 0, z |-> 0]]
        ELSE [hasCollision |-> TRUE,
              collisionPoint |->
                  [x |-> newPosition.x + RoundDiv(dirs[nearest].x * rays[nearest], 10000),
                   y |-> newPosition.y + collisionRayAbove,
                   z |-> newPosition.z + RoundDiv(dirs[nearest].z * rays[nearest], 10000)]]

\* Faulty variant: only the x axis is tested.
isPositionValidAlongX(position) ==
    /\ position.x >= -mapRadius
    /\ position.x <= mapRadius

\* isPositionValid (758-767).
isPositionValid(position) ==
    /\ position.x >= -mapRadius
    /\ position.x <= mapRadius
    /\ position.z >= -mapRadius
    /\ position.z <= mapRadius

\* Lines 416-427: the tentative position.
TentativePosition(position, dir, velocity, lateralVelocity, dt) ==
    LET forwardStep == RoundDiv(velocity * dt, 10000)
        lateralStep == IF Abs(lateralVelocity) > 500
                       THEN RoundDiv(lateralVelocity * dt, 10000) ELSE 0
    IN  [x |-> position.x + RoundDiv(dir.x * forwardStep, 10000)
                          + RoundDiv(-dir.z * lateralStep, 10000),
         y |-> position.y,
         z |-> position.z + RoundDiv(dir.z * forwardStep, 10000)
                          + RoundDiv(dir.x * lateralStep, 10000)]

\* Faulty variant: the push goes toward the collision point.
PushedPositionInward(position, collisionPoint, velocity) ==
    LET pushDirection == Normalize([x |-> collisionPoint.x - position.x,
                                    y |-> collisionPoint.y - position.y,
                                    z |-> collisionPoint.z - position.z])
        pushForce == RoundDiv(Abs(velocity) * 5, 100)
    IN  [position EXCEPT !.x = @ + RoundDiv(pushDirection.x * pushForce, 10000),
                         !.z = @ + RoundDiv(pushDirection.z * pushForce, 10000)]

\* Lines 440-447: the push away from the collision point.
PushedPosition(position, collisionPoint, velocity) ==
    LET pushDirection == Normalize([x |-> position.x - collisionPoint.x,
                                    y |-> position.y - collisionPoint.y,
                                    z |-> position.z - collisionPoint.z])
        pushForce == RoundDiv(Abs(velocity) * 5, 100)
    IN  [position EXCEPT !.x = @ + RoundDiv(pushDirection.x * pushForce, 10000),
                         !.z = @ + RoundDiv(pushDirection.z * pushForce, 10000)]

\* Faulty variant: the heading turns against the yaw rate.
HeadingStepAgainstYaw(rotationY, yawRate, effectiveDeltaTime) ==
    rotationY - RoundDiv(yawRate * effectiveDeltaTime, 10000)

\* Lines 401-403: the yaw rate is applied to the heading.
HeadingStep(rotationY, yawRate, effectiveDeltaTime) ==
    rotationY + RoundDiv(yawRate * effectiveDeltaTime, 10000)

\* Faulty variant: a clearance of exactly minDistance counts as grounded.
checkGroundedAtThreshold(y, ground, hasGroundObjects) ==
    IF ~hasGroundObjects THEN TRUE
    ELSE \E i \in Wheels : RayHits(ground[i], y) /\ y - ground[i].y <= minDistance

\* checkGrounded (558-581) for a car whose wheels are at height y.
checkGrounded(y, ground, hasGroundObjects) ==
    IF ~hasGroundObjects THEN TRUE
    ELSE \E i \in Wheels : RayHits(ground[i], y) /\ y - ground[i].y < minDistance

\* Faulty variant: an impact of exactly 5 m/s is a hard landing.
LandingResponseHardAtFive(fallen) ==
    LET impactForce == Abs(fallen.verticalVelocity)
    IN  IF impactForce >= 50000
        THEN [fallen EXCEPT
                  !.isGrounded = TRUE,
                  !.verticalVelocity = RoundDiv(impactForce * 3, 10),
                  !.carPhysics = IF Abs(@.velocity) > 5000
                                 THEN reverseVelocity(@, 2) ELSE @]
                 @@ [landed |-> TRUE, hard |-> TRUE,
                     scrubbed |-> Abs(fallen.carPhysics.velocity) > 5000]
        ELSE [fallen EXCEPT !.isGrounded = TRUE, !.verticalVelocity = 0]
                 @@ [landed |-> TRUE, hard |-> FALSE, scrubbed |-> FALSE]

\* Lines 534-554: the response to a landing; fallen is the controller after
\* gravity has moved it, found grounded by the second check.
LandingResponse(fallen) ==
    LET impactForce == Abs(fallen.verticalVelocity)
    IN  IF impactForce > 50000
        THEN [fallen EXCEPT
                  !.isGrounded = TRUE,
                  !.verticalVelocity = RoundDiv(impactForce * 3, 10),
                  !.carPhysics = IF Abs(@.velocity) > 5000
                                 THEN reverseVelocity(@, 2) ELSE @]
                 @@ [landed |-> TRUE, hard |-> TRUE,
                     scrubbed |-> Abs(fallen.carPhysics.velocity) > 5000]
        ELSE [fallen EXCEPT !.isGrounded = TRUE, !.verticalVelocity = 0]
                 @@ [landed |-> TRUE, hard |-> FALSE, scrubbed |-> FALSE]

\* applyGravity (517-556).  c is the controller before the call (its position
\* already committed); the result adds what the call decided: landed, hard
\* and scrubbed (reverseVelocity was called).
applyGravity(c, dt, ground) ==
    IF checkGrounded(c.position.y, ground, c.hasGroundObjects)
    THEN [c EXCEPT !.isGrounded = TRUE, !.verticalVelocity = 0, !.airborneTime = 0]
             @@ [landed |-> FALSE, hard |-> FALSE, scrubbed |-> FALSE]
    ELSE LET vv == c.verticalVelocity - RoundDiv(GRAVITY * dt, 100)
             y == c.position.y + RoundDiv(vv * dt, 10000)
             fallen == [c EXCEPT !.isGrounded = FALSE,
                                 !.verticalVelocity = vv,
                                 !.airborneTime = @ + dt,
                                 !.position = [@ EXCEPT !.y = y]]
         IN  IF checkGrounded(y, ground, c.hasGroundObjects)
             THEN LandingResponse(fallen)
             ELSE fallen @@ [landed |-> FALSE, hard |-> FALSE, scrubbed |-> FALSE]

\* Lines 689-709: the spring-damper integration of one wheel whose ray hit
\* ground at groundHeight, the wheel being at wheelHeight; height is the
\* suspension height before the limit stops are applied.
SpringStep(susp, wheelHeight, groundHeight, dt) ==
    LET currentLength == wheelHeight - groundHeight
        compression == restLength - currentLength
        springForce == springConstant * compression
        damperForce == damperConstant * susp.velocity
        force == springForce - damperForce
        acceleration == RoundDiv(force, carMass)
        velocity == susp.velocity + RoundDiv(acceleration * dt, 10000)
    IN  [compression |-> compression, velocity |-> velocity,
         height |-> susp.currentHeight + RoundDiv(velocity * dt, 10000)]

\* Faulty variant: the limit stops leave the spring velocity as it is.
SuspensionStepElasticStop(susp, wheelHeight, groundHeight, dt) ==
    LET s == SpringStep(susp, wheelHeight, groundHeight, dt)
    IN  [susp EXCEPT !.compression = s.compression, !.velocity = s.velocity,
                     !.currentHeight = Max(minSuspension, Min(maxSuspension, s.height))]

\* Lines 689-720: the suspension of one wheel whose ray hit ground.
SuspensionStep(susp, wheelHeight, groundHeight, dt) ==
    LET s == SpringStep(susp, wheelHeight, groundHeight, dt)
    IN  IF s.height < minSuspension
        THEN [susp EXCEPT !.compression = s.compression, !.velocity = 0,
                          !.currentHeight = minSuspension]
        ELSE IF s.height > maxSuspension
        THEN [susp EXCEPT !.compression = s.compression, !.velocity = 0,
                          !.currentHeight = maxSuspension]
        ELSE [susp EXCEPT !.compression = s.compression, !.velocity = s.velocity,
                          !.currentHeight = s.height]

\* Lines 722-729: the chassis height eases toward the ground under wheel 0.
ChassisHeightStep(y, groundHeight) ==
    y + RoundDiv((groundHeight + chassisToGroundRest - y) * 3, 10)

\* Faulty variant: a wheel whose ray finds nothing relaxes to its rest length.
WheelStepRelaxesUnloaded(a, i, dt, ground) ==
    IF RayHits(ground[i], a.y)
    THEN [y |-> IF i = 0 THEN ChassisHeightStep(a.y, ground[i].y) ELSE a.y,
          susp |-> [a.susp EXCEPT ![i] = SuspensionStep(@, a.y, ground[i].y, dt)],
          hit |-> [a.hit EXCEPT ![i] = TRUE],
          clamped |-> [a.clamped EXCEPT ![i] =
                          LET h == SpringStep(a.susp[i], a.y, ground[i].y, dt).height
                          IN  h < minSuspension \/ h > maxSuspension]]
    ELSE [a EXCEPT !.susp[i] = [@ EXCEPT !.velocity = 0, !.currentHeight = restLength]]

\* Lines 655-730: one pass of applyTerrainPhysics' loop, for wheel i.  a carries
\* the chassis height y (wheel 0 moves it before wheels 1 .. 3 cast their
\* rays), the suspension values and, per wheel, whether its ray hit and
\* whether a limit stop was applied.
WheelStep(a, i, dt, ground) ==
    IF RayHits(ground[i], a.y)
    THEN [y |-> IF i = 0 THEN ChassisHeightStep(a.y, ground[i].y) ELSE a.y,
          susp |-> [a.susp EXCEPT ![i] = SuspensionStep(@, a.y, ground[i].y, dt)],
          hit |-> [a.hit EXCEPT ![i] = TRUE],
          clamped |-> [a.clamped EXCEPT ![i] =
                          LET h == SpringStep(a.susp[i], a.y, ground[i].y, dt).height
                          IN  h < minSuspension \/ h > maxSuspension]]
    ELSE a

\* applyTerrainPhysics (654-731): the four wheels in order.
applyTerrainPhysics(c, dt, ground) ==
    LET a0 == [y |-> c.position.y, susp |-> c.suspensionValues,
               hit |-> [i \in Wheels |-> FALSE], clamped |-> [i \in Wheels |-> FALSE]]
        a == WheelStep(WheelStep(WheelStep(WheelStep(a0, 0, dt, ground),
                                           1, dt, ground), 2, dt, ground), 3, dt, ground)
    IN  [c EXCEPT !.position = [@ EXCEPT !.y = a.y], !.suspensionValues = a.susp]
            @@ [wheelHit |-> a.hit, clamped |-> a.clamped]

\* Lines 463-473: the visual tilt.  rotation is carGroup.rotation, the Euler
\* angles x (pitch), y (yaw) and z (roll) in 1e-4 rad; velocity and
\* lateralVelocity are the values read right after the dynamics update, p is
\* the dynamics object after applyGravity.
TiltStep(rotation, p, velocity, lateralVelocity) ==
    IF Abs(p.slipAngle) > 200 /\ Abs(velocity) > 30000
    THEN LET rollTarget == -Sign(lateralVelocity)
                               * Min(RoundDiv(Abs(lateralVelocity) * 4, 100), 1800)
             pitchTarget == RoundDiv(p.driftFactor * 2, 100)
         IN  [rotation EXCEPT !.z = @ + RoundDiv((rollTarget - @) * 15, 100),
                              !.x = @ + RoundDiv((pitchTarget - @) * 15, 100)]
    ELSE [rotation EXCEPT !.z = RoundDiv(@ * 88, 100), !.x = RoundDiv(@ * 88, 100)]

\* An angle brought into (-pi, pi].
WrapAngle(a) == ((a + 31415) % 62832) - 31415

\* What carGroup.rotation holds after carGroup.quaternion was written (line
\* 593): the quaternion is read back as Euler angles of order XYZ, whose y
\* angle is an arcsine and lies within a quarter turn of 0.  An orientation
\* with its heading beyond that comes back as the same orientation written
\* with the supplementary y and with x and z half a turn on.
EulerOf(rotation) ==
    LET y == WrapAngle(rotation.y)
    IN  IF Abs(y) <= 15708
        THEN [x |-> WrapAngle(rotation.x), y |-> y, z |-> WrapAngle(rotation.z)]
        ELSE [x |-> WrapAngle(rotation.x + 31416),
              y |-> IF y > 0 THEN 31416 - y ELSE -31416 - y,
              z |-> WrapAngle(rotation.z + 31416)]

\* Faulty variant: the levelling starts with the flight.
applyAirborneRotationAtOnce(rotation, airborneTime) ==
    IF airborneTime > 0
    THEN IF rotation.x = 0 /\ rotation.z = 0
         THEN {rotation, EulerOf(rotation)}
         ELSE {EulerOf([rotation EXCEPT !.x = RoundDiv(@ * 98, 100),
                                        !.z = RoundDiv(@ * 98, 100)])}
    ELSE {rotation}

\* applyAirborneRotation (583-595): the outcomes of the slerp toward the level
\* orientation of the same yaw, at factor 0.02, taken to first order in pitch
\* and roll (exact when one of them is 0).  A chassis that is level already
\* equals its target: whether the quaternion is then written at all depends
\* on the last bit of a floating-point dot product, so both outcomes occur.
applyAirborneRotation(rotation, airborneTime) ==
    IF airborneTime > 2000
    THEN IF rotation.x = 0 /\ rotation.z = 0
         THEN {rotation, EulerOf(rotation)}
         ELSE {EulerOf([rotation EXCEPT !.x = RoundDiv(@ * 98, 100),
                                        !.z = RoundDiv(@ * 98, 100)])}
    ELSE {rotation}

\* Lines 489-500: the trail trigger.  velocity and lateralVelocity are the
\* values read right after the dynamics update; p is the dynamics object at
\* the end of the frame.
ShouldTrailAtAnyDriftSpeed(p, velocity, lateralVelocity, isGrounded) ==
    LET speed == Abs(velocity)
        isDrifting == p.driftFactor > 1000
        hasSlide == Abs(p.slipAngle) > 300 \/ Abs(lateralVelocity) > 8000
    IN  (isDrifting \/ hasSlide) /\ speed > 30000 /\ isGrounded

ShouldTrail(p, velocity, lateralVelocity, isGrounded) ==
    LET speed == Abs(velocity)
        isDrifting == p.driftFactor > 1000 /\ speed > 50000
        hasSlide == Abs(p.slipAngle) > 300 \/ Abs(lateralVelocity) > 8000
    IN  (isDrifting \/ hasSlide) /\ speed > 30000 /\ isGrounded

\* Lines 502-511: what the frame asks of the trail system, sinceLast being
\* the clock's elapsed time minus lastTrailTime.
TrailSignalBreaksWhenIdle(shouldTrail, wasTrailing, sinceLast) ==
    IF shouldTrail
    THEN IF sinceLast > TRAIL_SPAWN_INTERVAL THEN "create" ELSE "none"
    ELSE "break"

TrailSignal(shouldTrail, wasTrailing, sinceLast) ==
    IF shouldTrail
    THEN IF sinceLast > TRAIL_SPAWN_INTERVAL THEN "create" ELSE "none"
    ELSE IF wasTrailing THEN "break" ELSE "none"

----------------------------------------------------------------------------
(* TrailSystem (effects/TrailSystem.ts) and what it holds in the scene.    *)
(* A trail system is a record of its ribbons (activeRibbons per wheel id,  *)
(* fadingRibbons), the number of ribbons made so far, the objects in the   *)
(* THREE.Scene and the resources released by a dispose() call.  A ribbon   *)
(* is known by its number, its material, its head (points written) and    *)
(* the alpha of its newest point, in 1e-4.                                 *)

MAX_POINTS == 200
FADE_RATE == 8

RearWheels == {"rear-right", "rear-left"}

NoRibbon == [id |-> 0, material |-> "none", head |-> 0, alpha |-> 0]

CarGroupObject == [kind |-> "carGroup", id |-> 0]
RibbonMesh(r) == [kind |-> "ribbon", id |-> r.id]
RibbonGeometry(r) == [kind |-> "geometry", id |-> r.id]
TrailMaterials == {[kind |-> "trackMaterial", id |-> 0], [kind |-> "grassMaterial", id |-> 0]}

\* TrailSystem's constructor (162-186), for a scene holding the objects given.
NewTrailSystem(scene) ==
    [activeRibbons |-> [w \in RearWheels |-> NoRibbon],
     fadingRibbons |-> {},
     made |-> 0,
     scene |-> scene,
     released |-> {}]

\* retireRibbon (231-237).
retireRibbonKeepsActive(t, wheelId) ==
    IF t.activeRibbons[wheelId] # NoRibbon
    THEN [t EXCEPT !.fadingRibbons = @ \cup {t.activeRibbons[wheelId]}]
    ELSE t

retireRibbon(t, wheelId) ==
    IF t.activeRibbons[wheelId] # NoRibbon
    THEN [t EXCEPT !.fadingRibbons = @ \cup {t.activeRibbons[wheelId]},
                   !.activeRibbons[wheelId] = NoRibbon]
    ELSE t

\* addTrail (192-222) with TrailRibbon.addPoint (76-114); isOnTrack is the
\* answer of isOnTrackSurface for the point, far says that the point lies at
\* least MIN_DISTANCE from the last point of the ribbon.
addTrail(t, wheelId, isOnTrack, far) ==
    LET material == IF isOnTrack THEN "trackMaterial" ELSE "grassMaterial"
        ribbon == t.activeRibbons[wheelId]
        t1 == IF ribbon # NoRibbon /\ (ribbon.material # material \/ ribbon.head >= MAX_POINTS)
              THEN retireRibbon(t, wheelId) ELSE t
        fresh == [id |-> t1.made + 1, material |-> material, head |-> 0, alpha |-> 0]
        t2 == IF t1.activeRibbons[wheelId] = NoRibbon
              THEN [t1 EXCEPT !.made = @ + 1,
                              !.scene = @ \cup {RibbonMesh(fresh)},
                              !.activeRibbons[wheelId] = fresh]
              ELSE t1
        to == t2.activeRibbons[wheelId]
    IN  IF to.head < MAX_POINTS /\ (to.head = 0 \/ far)
        THEN [t2 EXCEPT !.activeRibbons[wheelId] = [@ EXCEPT !.head = @ + 1, !.alpha = 6500]]
        ELSE t2

\* breakAllTrails (224-229).
breakAllTrails(t) == retireRibbon(retireRibbon(t, "rear-right"), "rear-left")

\* TrailRibbon.update (116-129): the ribbon after dt of fading.
RibbonFade(r, dt) == [r EXCEPT !.alpha = IF @ > 0 THEN Max(0, @ - RoundDiv(FADE_RATE * dt, 100)) ELSE @]

\* TrailRibbon.update's result: a vertex is still visible.
RibbonAliveWhileDrawn(r) == r.head > 0

RibbonAlive(r) == r.head > 0 /\ r.alpha > 10

\* TrailSystem.update (239-254), dt being the time since the last update.
trailSystemUpdate(t, dt) ==
    LET faded == {RibbonFade(r, dt) : r \in t.fadingRibbons}
        dead == {r \in faded : ~RibbonAlive(r)}
    IN  [t EXCEPT !.activeRibbons =
                      [w \in RearWheels |-> IF @[w] = NoRibbon THEN NoRibbon
                                            ELSE RibbonFade(@[w], dt)],
                  !.fadingRibbons = faded \ dead,
                  !.scene = @ \ {RibbonMesh(r) : r \in dead},
                  !.released = @ \cup {RibbonGeometry(r) : r \in dead}]

\* TrailSystem.dispose (256-269).
trailSystemDispose(t) ==
    LET ribbons == ({t.activeRibbons[w] : w \in RearWheels} \ {NoRibbon})
                       \cup t.fadingRibbons
    IN  [t EXCEPT !.activeRibbons = [w \in RearWheels |-> NoRibbon],
                  !.fadingRibbons = {},
                  !.scene = @ \ {RibbonMesh(r) : r \in ribbons},
                  !.released = @ \cup {RibbonGeometry(r) : r \in ribbons}
                                 \cup TrailMaterials]

\* createDriftTrails (786-815): nothing for a car in the air; the rear wheels in
\* order; trailHits are the wheels whose ray finds ground, trailOnTrack what
\* the trail system finds for the point under each: the surface, and whether
\* the point is far enough from the last one.
createDriftTrails(t, isGrounded, trailHits, trailOnTrack) ==
    LET t1 == IF "rear-right" \in trailHits
              THEN addTrail(t, "rear-right", trailOnTrack["rear-right"].onTrack,
                            trailOnTrack["rear-right"].far)
              ELSE t
    IN  IF ~isGrounded THEN t
        ELSE IF "rear-left" \in trailHits
        THEN addTrail(t1, "rear-left", trailOnTrack["rear-left"].onTrack,
                      trailOnTrack["rear-left"].far)
        ELSE t1

----------------------------------------------------------------------------
(* GameEngine and InputManager: the window listeners, the key map, the     *)
(* camera and the animation frames asked of the browser.  An engine is a   *)
(* record; a listener is known by its event type, the method it runs and   *)
(* the number of the bind() call that made the function object (0 for a    *)
(* function stored in a class field).                                      *)

\* The two InputManager classes of the sources: handlers bound at each use,
\* and handlers stored as arrow-function fields.
InputManagerRevisions == {"bound", "fields"}

\* Keys of interest: the camera toggle and the throttle.
Keys == {"c", "q"}

Listener(type, of, bind) == [type |-> type, of |-> of, bind |-> bind]

\* window.addEventListener / removeEventListener: a listener is the same
\* only when it is the same function object.
addEventListener(e, l) == [e EXCEPT !.listeners = @ \cup {l}]
removeEventListener(e, l) == [e EXCEPT !.listeners = @ \ {l}]

\* InputManager's constructor.
NewInputManager(e) ==
    IF e.revision = "bound"
    THEN addEventListener(
             addEventListener([e EXCEPT !.binds = @ + 2],
                              Listener("keydown", "InputManager.onKeyDown", e.binds + 1)),
             Listener("keyup", "InputManager.onKeyUp", e.binds + 2))
    ELSE addEventListener(
             addEventListener(e, Listener("keydown", "InputManager.handleKeyDown", 0)),
             Listener("keyup", "InputManager.handleKeyUp", 0))

\* InputManager.dispose.
inputManagerDispose(e) ==
    LET removed ==
            IF e.revision = "bound"
            THEN removeEventListener(
                     removeEventListener([e EXCEPT !.binds = @ + 2],
                                         Listener("keydown", "InputManager.onKeyDown",
                                                  e.binds + 1)),
                     Listener("keyup", "InputManager.onKeyUp", e.binds + 2))
            ELSE removeEventListener(
                     removeEventListener(e, Listener("keydown",
                                                     "InputManager.handleKeyDown", 0)),
                     Listener("keyup", "InputManager.handleKeyUp", 0))
    IN  [removed EXCEPT !.keys = {}]

\* InputManager.isKeyPressed.
isKeyPressed(e, key) == key \in e.keys

\* GameEngine's constructor (18-71): the canvas is put into the container,
\* the camera takes the container's aspect, the engine is not running.
NewEngine(revision) ==
    LET e0 == [revision |-> revision, listeners |-> {}, binds |-> 0, keys |-> {},
               cameraMode |-> "follow", aspect |-> "container", attached |-> TRUE,
               scheduled |-> 0]
        e1 == NewInputManager(e0)
    IN  addEventListener(
            addEventListener([e1 EXCEPT !.binds = @ + 2],
                             Listener("resize", "GameEngine.onWindowResize", e1.binds + 1)),
            Listener("keydown", "GameEngine.onKeyDown", e1.binds + 2))

\* GameEngine.dispose (192-206) but for isRunning: the listeners are taken
\* off, the input manager is disposed, the canvas leaves the page.
engineDispose(e) ==
    LET e1 == removeEventListener(
                  removeEventListener([e EXCEPT !.binds = @ + 2],
                                      Listener("resize", "GameEngine.onWindowResize",
                                               e.binds + 1)),
                  Listener("keydown", "GameEngine.onKeyDown", e.binds + 2))
    IN  [inputManagerDispose(e1) EXCEPT !.attached = FALSE]

\* The window delivers an event to the listeners registered for it.
Hears(e, type, of) == \E l \in e.listeners : l.type = type /\ l.of = of

\* A keydown: GameEngine.onKeyDown (73-78) with toggleCameraMode (80-83) and
\* the input manager's handler.
keydown(e, key) ==
    [e EXCEPT !.cameraMode = IF key = "c" /\ Hears(e, "keydown", "GameEngine.onKeyDown")
                             THEN IF @ = "follow" THEN "free" ELSE "follow"
                             ELSE @,
              !.keys = IF \/ Hears(e, "keydown", "InputManager.onKeyDown")
                          \/ Hears(e, "keydown", "InputManager.handleKeyDown")
                       THEN @ \cup {key} ELSE @]

\* A keyup.
keyup(e, key) ==
    [e EXCEPT !.keys = IF \/ Hears(e, "keyup", "InputManager.onKeyUp")
                          \/ Hears(e, "keyup", "InputManager.handleKeyUp")
                       THEN @ \ {key} ELSE @]

\* A resize of the window: onWindowResize (133-140) returns when the canvas
\* has no parent element.
resize(e) ==
    [e EXCEPT !.aspect = IF Hears(e, "resize", "GameEngine.onWindowResize") /\ e.attached
                         THEN "window" ELSE @]

----------------------------------------------------------------------------
(* State.                                                                  *)

VARIABLES
    carPhysics,        \* the CarPhysics object (a record of its fields)
    position,          \* CarController.position
    rotationY,         \* carGroup.rotation.y; direction is (sin, 0, cos) of it
    rotationX,         \* carGroup.rotation.x (pitch)
    rotationZ,         \* carGroup.rotation.z (roll)
    isOnTrack,
    verticalVelocity,
    isGrounded,
    airborneTime,
    suspensionValues,  \* per wheel: compression, velocity, targetHeight, currentHeight
    lastTrailTime,
    wasTrailing,
    now,               \* wall-clock time since the controller's clock started
    hasGroundObjects,  \* a ground or track mesh exists (_validGroundObjects)
    trailSystem,       \* the TrailSystem's ribbons and the count of ribbons made
    scene,             \* the controller's objects in the THREE.Scene
    released,          \* resources released by a dispose() call
    isRunning,         \* GameEngine.isRunning
    engine,            \* the engine's listeners, key map, camera and frames
    unknown,           \* what the design leaves open in getYawRate / getSlipAngle
    calls,             \* calls made so far
    obs                \* what the last call read and decided on its way

vars == <<carPhysics, position, rotationY, rotationX, rotationZ, isOnTrack,
          verticalVelocity, isGrounded, airborneTime, suspensionValues, lastTrailTime, wasTrailing, now,
          hasGroundObjects, trailSystem, scene, released, isRunning, engine, unknown,
          calls, obs>>

\* The controller's fields as one record.
Controller ==
    [carPhysics |-> carPhysics, position |-> position, rotationY |-> rotationY,
     rotationX |-> rotationX, rotationZ |-> rotationZ,
     isOnTrack |-> isOnTrack, verticalVelocity |-> verticalVelocity,
     isGrounded |-> isGrounded, airborneTime |-> airborneTime,
     suspensionValues |-> suspensionValues, hasGroundObjects |-> hasGroundObjects]

\* Lines 348-357: a wheel's suspension after construction.
NewSuspension ==
    [compression |-> 0, velocity |-> 0, targetHeight |-> 0, currentHeight |-> restLength]

\* The pose the map hands out (getStartPosition, getStartDirection): on the
\* first track point, half a metre over the ground, heading along +z.
StartPosition == [x |-> 0, y |-> 5000, z |-> -800000]

\* Lines 287-361: the controller after construction.
NewController ==
    [carPhysics |-> NewCarPhysics,
     position |-> [StartPosition EXCEPT !.y = @ + 5000],
     rotationY |-> 0,
     rotationX |-> 0,
     rotationZ |-> 0,
     isOnTrack |-> TRUE,
     verticalVelocity |-> 0,
     isGrounded |-> TRUE,
     airborneTime |-> 0,
     suspensionValues |-> [i \in Wheels |-> NewSuspension],
     hasGroundObjects |-> TRUE]

\* Values for what the design leaves open in getYawRate / getSlipAngle: the
\* size of the counter-steer correction (1e-4 rad/s) and the tenths of the
\* slip angle kept per step at rest.  They are fixed for a run.
Unknowns == {[counter |-> 2000, slipKeep |-> 9], [counter |-> 8000, slipKeep |-> 0]}

\* The trail system with the scene and the released resources, as one record.
TrailState ==
    [activeRibbons |-> trailSystem.activeRibbons,
     fadingRibbons |-> trailSystem.fadingRibbons,
     made |-> trailSystem.made,
     scene |-> scene,
     released |-> released]

\* The variables hold the controller c and the trail system t; trail gives
\* wasTrailing, lastTrailTime and the clock; no call made.
CarStartsWith(c, t, trail) ==
    /\ unknown \in Unknowns
    /\ carPhysics = c.carPhysics
    /\ position = c.position
    /\ rotationY = c.rotationY
    /\ rotationX = c.rotationX
    /\ rotationZ = c.rotationZ
    /\ isOnTrack = c.isOnTrack
    /\ verticalVelocity = c.verticalVelocity
    /\ isGrounded = c.isGrounded
    /\ airborneTime = c.airborneTime
    /\ suspensionValues = c.suspensionValues
    /\ hasGroundObjects = c.hasGroundObjects
    /\ trailSystem = [activeRibbons |-> t.activeRibbons,
                      fadingRibbons |-> t.fadingRibbons, made |-> t.made]
    /\ scene = t.scene
    /\ released = t.released
    /\ lastTrailTime = trail.lastTrailTime
    /\ wasTrailing = trail.wasTrailing
    /\ now = trail.now
    /\ calls = 0
    /\ obs = [op |-> "new"]

\* An engine after start() (142-147), its next frame asked of the browser.
StartedEngine(revision) == [NewEngine(revision) EXCEPT !.scheduled = 1]

\* The same in a running engine.  The car's steps read nothing of the engine.
StartsWith(c, t, trail) ==
    /\ CarStartsWith(c, t, trail)
    /\ isRunning = TRUE
    /\ engine = StartedEngine("fields")

\* The variables hold the controller c, no trail has been laid, no call made.
StartsAs(c) ==
    StartsWith(c, NewTrailSystem({CarGroupObject}),
               [wasTrailing |-> FALSE, lastTrailTime |-> 0, now |-> 0])

----------------------------------------------------------------------------
(* CarController.update(deltaTime), lines 363-515, as one step.  Each     *)
(* intermediate result is named once, in the order the code produces it.  *)

Update(deltaTime, input, onTrack, rays, ground, trailHits, trailOnTrack) ==
    LET dt == Min(deltaTime, maxDeltaTime)
        effectiveDeltaTime == IF onTrack THEN dt ELSE RoundDiv(dt * offTrackSlowdown, 100)
        currentTime == now + deltaTime
    IN  \E p1 \in {CarPhysicsUpdate(carPhysics, effectiveDeltaTime, input, ~onTrack, unknown)} :
        \E rot \in {HeadingStep(rotationY, p1.yawRate, effectiveDeltaTime)} :
        \E dir \in {[x |-> Sin(rot), z |-> Cos(rot)]} :
        \E newPosition \in {TentativePosition(position, dir, p1.velocity,
                                              p1.lateralVelocity, effectiveDeltaTime)} :
        \E collisionResult \in {checkCollisions(newPosition, dir, rays)} :
        \E pos2 \in {IF ~collisionResult.hasCollision THEN newPosition
                     ELSE PushedPosition(position, collisionResult.collisionPoint,
                                         p1.velocity)} :
        \E p2 \in {IF collisionResult.hasCollision THEN reverseVelocity(p1, 5) ELSE p1} :
        \E p3 \in {IF ~isPositionValid(pos2) THEN reverseVelocity(p2, 5) ELSE p2} :
        \E c4 \in {applyGravity([Controller EXCEPT !.carPhysics = p3, !.position = pos2,
                                                   !.rotationY = rot, !.isOnTrack = onTrack],
                                dt, ground)} :
        \E c5 \in {IF c4.isGrounded THEN applyTerrainPhysics(c4, dt, ground)
                   ELSE c4 @@ [wheelHit |-> [i \in Wheels |-> FALSE],
                               clamped |-> [i \in Wheels |-> FALSE]]} :
        \E tilted \in {TiltStep([x |-> rotationX, y |-> rot, z |-> rotationZ],
                                 c4.carPhysics, p1.velocity, p1.lateralVelocity)} :
        \E rotation \in (IF c4.isGrounded THEN {tilted}
                         ELSE applyAirborneRotation(tilted, c4.airborneTime)) :
        \E shouldTrail \in {ShouldTrail(c5.carPhysics, p1.velocity, p1.lateralVelocity,
                                        c5.isGrounded)} :
        \E signal \in {TrailSignal(shouldTrail, wasTrailing, currentTime - lastTrailTime)} :
        \E emit \in {signal = "create"} :
        \E t1 \in {IF emit THEN createDriftTrails(TrailState, c5.isGrounded, trailHits,
                                                   trailOnTrack)
                   ELSE IF signal = "break" THEN breakAllTrails(TrailState)
                   ELSE TrailState} :
        \E t2 \in {trailSystemUpdate(t1, deltaTime)} :
            /\ carPhysics' = c5.carPhysics
            /\ position' = c5.position
            /\ rotationY' = rotation.y
            /\ rotationX' = rotation.x
            /\ rotationZ' = rotation.z
            /\ isOnTrack' = c5.isOnTrack
            /\ verticalVelocity' = c5.verticalVelocity
            /\ isGrounded' = c5.isGrounded
            /\ airborneTime' = c5.airborneTime
            /\ suspensionValues' = c5.suspensionValues
            /\ lastTrailTime' = IF emit THEN currentTime ELSE lastTrailTime
            /\ wasTrailing' = shouldTrail
            /\ now' = currentTime
            /\ calls' = calls + 1
            /\ obs' = [op |-> "tick",
                       dt |-> dt,
                       input |-> input,
                       isOffTrack |-> ~onTrack,
                       effectiveDeltaTime |-> effectiveDeltaTime,
                       positionBefore |-> position,
                       rotationBefore |-> rotationY,
                       afterUpdate |-> p1,
                       heading |-> rot,
                       ground |-> ground,
                       groundedAtStart |-> checkGrounded(pos2.y, ground, hasGroundObjects),
                       wheelHeightAtStart |-> pos2.y,
                       wheelHeightAfterFall |-> c4.position.y,
                       verticalVelocityBefore |-> verticalVelocity,
                       airborneTimeBefore |-> airborneTime,
                       beforeGravity |-> p3,
                       tilted |-> tilted,
                       suspensionBefore |-> suspensionValues,
                       velocityAfterUpdate |-> p1.velocity,
                       newPosition |-> newPosition,
                       hasCollision |-> collisionResult.hasCollision,
                       collisionPoint |-> collisionResult.collisionPoint,
                       positionAfterCollision |-> pos2,
                       velocityAfterCollision |-> p2.velocity,
                       velocityAfterBoundary |-> p3.velocity,
                       reversals |->
                           (IF collisionResult.hasCollision THEN <<"collision">> ELSE <<>>)
                           \o (IF ~isPositionValid(pos2) THEN <<"boundary">> ELSE <<>>)
                           \o (IF c4.scrubbed THEN <<"landing">> ELSE <<>>),
                       landed |-> c4.landed,
                       hard |-> c4.hard,
                       terrainRan |-> c4.isGrounded,
                       wheelHit |-> c5.wheelHit,
                       clamped |-> c5.clamped,
                       shouldTrail |-> shouldTrail,
                       trailsAdded |-> IF emit THEN trailHits ELSE {},
                       trailsBroken |-> signal = "break",
                       signal |-> signal,
                       deltaTime |-> deltaTime,
                       wasTrailingBefore |-> wasTrailing,
                       lastTrailTimeBefore |-> lastTrailTime,
                       nowBefore |-> now,
                       trailBefore |-> TrailState,
                       afterSignal |-> t1]
            /\ trailSystem' = [activeRibbons |-> t2.activeRibbons,
                               fadingRibbons |-> t2.fadingRibbons, made |-> t2.made]
            /\ scene' = t2.scene
            /\ released' = t2.released
            /\ UNCHANGED <<hasGroundObjects, unknown>>

\* CarController.update called on its own: the engine is left alone.
Tick(deltaTime, input, onTrack, rays, ground, trailHits, trailOnTrack) ==
    /\ Update(deltaTime, input, onTrack, rays, ground, trailHits, trailOnTrack)
    /\ UNCHANGED <<isRunning, engine>>

----------------------------------------------------------------------------
(* The dynamics model on its own: CarPhysics.update and reverseVelocity    *)
(* called in any order with any input.                                     *)

\* Calls explored after the initial state.
MaxCalls == 1

\* Time steps handed to CarPhysics.update: 0.03 s (the controller's ceiling)
\* and a short frame of 0.01 s.
PhysDeltaTimes == {100, 300}

\* Dynamics states a drive passes through.  Speeds: the bounce off a wall at
\* top speed, both speed limits, rest, and the neighbourhood of the 3 m/s and
\* 5 m/s thresholds.  Slides: none; a drift just begun with left steer; a
\* drift at full lock to the right; a slide dying out after the drift input
\* was released.  A drift needs speed, so the sliding states are taken at
\* 3 m/s and above only.
PhysGrid ==
    {[NewCarPhysics EXCEPT !.velocity = v, !.driftFactor = d.df,
                           !.lateralVelocity = d.lat, !.slideDirection = Sign(d.lat),
                           !.steeringAngle = d.st,
                           !.yawRate = SteerTimesSpeed(d.st, v),
                           !.slipAngle = IF v = 0 THEN 0 ELSE Atan2(d.lat, Abs(v))] :
        <<v, d>> \in
            {vd \in {-125000, -100000, -60000, 0, 30000, 40000, 50000, 50300, 250000}
                    \X {[df |-> 0, lat |-> 0, st |-> 0],
                        [df |-> 600, lat |-> -20000, st |-> 100000],
                        [df |-> 9900, lat |-> 60000, st |-> -139600],
                        [df |-> 300, lat |-> 4000, st |-> 0]} :
                vd[2].df = 0 \/ Abs(vd[1]) >= 30000}}

InitPhys ==
    /\ \E p \in PhysGrid : StartsAs([NewController EXCEPT !.carPhysics = p])

UNCHANGED_Controller ==
    UNCHANGED <<position, rotationY, rotationX, rotationZ, isOnTrack, verticalVelocity,
                isGrounded, airborneTime, suspensionValues, lastTrailTime, wasTrailing, now,
                hasGroundObjects, trailSystem, scene, released, isRunning, engine,
                unknown>>

PhysUpdate ==
    /\ calls < MaxCalls
    /\ \E deltaTime \in PhysDeltaTimes, input \in CarInput, isOffTrack \in BOOLEAN :
          /\ carPhysics' = CarPhysicsUpdate(carPhysics, deltaTime, input, isOffTrack, unknown)
          /\ obs' = [op |-> "update", before |-> carPhysics, deltaTime |-> deltaTime,
                     input |-> input, isOffTrack |-> isOffTrack]
    /\ calls' = calls + 1
    /\ UNCHANGED_Controller

PhysReverse ==
    /\ calls < MaxCalls
    /\ \E factor \in {2, 5} :
          /\ carPhysics' = reverseVelocity(carPhysics, factor)
          /\ obs' = [op |-> "reverse", before |-> carPhysics, factor |-> factor]
    /\ calls' = calls + 1
    /\ UNCHANGED_Controller

NextPhys == PhysUpdate \/ PhysReverse

SpecPhys == InitPhys /\ [][NextPhys]_vars

----------------------------------------------------------------------------
(* Claims about the dynamics model, checked under SpecPhys.                *)

\* C6: driftFactor stays within [0, 1] whatever update and reverseVelocity
\* calls are made.
C6_DriftFactorBounds ==
    carPhysics.driftFactor >= 0 /\ carPhysics.driftFactor <= 10000

\* An update with the drift input held has just run the drift factor into
\* its ceiling.
C6_Witness ==
    /\ obs.op = "update"
    /\ obs.input.drift
    /\ obs.before.driftFactor < 10000
    /\ carPhysics.driftFactor = 10000

\* C7 as stated: the drift factor builds by DRIFT_BUILDUP*dt whenever the
\* drift input is held and |velocity| > 3 m/s at the start of the update,
\* and decays by DRIFT_RECOVERY*dt otherwise.
C7_BuildsAboveThree ==
    obs.op = "update" =>
        IF obs.input.drift /\ Abs(obs.before.velocity) > 30000
        THEN carPhysics.driftFactor = Min(10000, obs.before.driftFactor + 5 * obs.deltaTime)
        ELSE carPhysics.driftFactor = Max(0, obs.before.driftFactor - 3 * obs.deltaTime)

\* C7 amended: the same with the threshold the code uses, 5 m/s; and the
\* drift factor rises in no update without the drift input and that speed.
C7_BuildsAboveFive ==
    obs.op = "update" =>
        /\ IF obs.input.drift /\ Abs(obs.before.velocity) > 50000
           THEN carPhysics.driftFactor = Min(10000, obs.before.driftFactor + 5 * obs.deltaTime)
           ELSE carPhysics.driftFactor = Max(0, obs.before.driftFactor - 3 * obs.deltaTime)
        /\ carPhysics.driftFactor > obs.before.driftFactor
              => obs.input.drift /\ Abs(obs.before.velocity) > 50000

\* The drift input was held between 3 m/s and 5 m/s and the drift factor
\* went down.
C7_Witness ==
    /\ obs.op = "update"
    /\ obs.input.drift
    /\ Abs(obs.before.velocity) > 30000
    /\ Abs(obs.before.velocity) <= 50000
    /\ carPhysics.driftFactor < obs.before.driftFactor

\* The dynamics state is the rest state.
AtRest(p) ==
    p.velocity = 0 /\ p.lateralVelocity = 0 /\ p.driftFactor = 0 /\ p.steeringAngle = 0

\* C8: an update with no input held, made at rest, leaves the car at rest,
\* on and off track, for every time step.
C8_RestIsFixedPoint ==
    (obs.op = "update" /\ AtRest(obs.before) /\ obs.input = NoInput) => AtRest(carPhysics)

\* Such an update was made off track.
C8_Witness ==
    /\ obs.op = "update"
    /\ AtRest(obs.before)
    /\ obs.input = NoInput
    /\ obs.isOffTrack
    /\ AtRest(carPhysics)

\* What reverseVelocity leaves alone besides the yaw rate.
ReverseKeepsRest ==
    /\ carPhysics.driftFactor = obs.before.driftFactor
    /\ carPhysics.steeringAngle = obs.before.steeringAngle
    /\ carPhysics.slideDirection = obs.before.slideDirection

\* reverseVelocity's effect on the two speeds, to the nearest quantum:
\* velocity = -velocity * factor, lateralVelocity = lateralVelocity * -0.3.
ReverseSpeeds ==
    /\ Abs(10 * carPhysics.velocity + obs.factor * obs.before.velocity) <= 5
    /\ Abs(10 * carPhysics.lateralVelocity + 3 * obs.before.lateralVelocity) <= 5

C13_LateralWithinLimit ==
    carPhysics.lateralVelocity >= -60000 /\ carPhysics.lateralVelocity <= 60000

\* A drift at speed, steered into a slide that was already at the limit: the
\* update added to the slide and the clamp held it at the limit.
C13_Witness ==
    /\ obs.op = "update"
    /\ obs.input.drift /\ obs.input.right
    /\ obs.before.velocity > 50000
    /\ obs.before.lateralVelocity = 60000
    /\ carPhysics.lateralVelocity = 60000

\* C16 as stated: after every update the steering angle is within
\* [-MAX_STEER, MAX_STEER], the bound times the off-track steering factor
\* when off track.
C16_SteeringWithinMaxSteer ==
    obs.op = "update" =>
        Abs(carPhysics.steeringAngle) <= (IF obs.isOffTrack THEN 80000 ELSE 100000)

\* C16 amended: after every update the steering angle is within
\* MAX_STEER * (1 + 0.4 * driftFactor), that bound times the off-track
\* steering factor when off track (driftFactor as the update left it).
C16_SteeringWithinDriftLimit ==
    obs.op = "update" =>
        10 * Abs(carPhysics.steeringAngle)
            <= (100000 + 4 * carPhysics.driftFactor) * (IF obs.isOffTrack THEN 8 ELSE 10) + 5

\* An update off track, in a drift, left the steering angle beyond the plain
\* off-track limit.
C16_Witness ==
    /\ obs.op = "update"
    /\ obs.isOffTrack
    /\ carPhysics.driftFactor > 0
    /\ Abs(carPhysics.steeringAngle) > 80000

----------------------------------------------------------------------------
(* Full throttle from rest: CarPhysics.update called tick after tick with  *)
(* only the forward input held, on track, 16 ms per tick.                  *)

\* Ticks of the run (1.76 s; the speed limit is met in tick 105).
ThrottleTicks == 110

ThrottleInput == [NoInput EXCEPT !.forward = TRUE]

InitThrottle == StartsAs(NewController)

ThrottleStep ==
    /\ calls < ThrottleTicks
    /\ carPhysics' = CarPhysicsUpdate(carPhysics, 160, ThrottleInput, FALSE, unknown)
    /\ obs' = [op |-> "update", before |-> carPhysics, deltaTime |-> 160,
               input |-> ThrottleInput, isOffTrack |-> FALSE]
    /\ calls' = calls + 1
    /\ UNCHANGED_Controller

NextThrottle == ThrottleStep

SpecThrottle == InitThrottle /\ [][NextThrottle]_vars

\* C11: from rest, forward held, on track, dt = 0.016: the velocity never
\* decreases from tick to tick, rises in every tick until it is MAX_SPEED,
\* and never exceeds MAX_SPEED.
C11_ThrottleClimbsToMaxSpeed ==
    obs.op = "update" =>
        /\ carPhysics.velocity >= obs.before.velocity
        /\ carPhysics.velocity <= 250000
        /\ carPhysics.velocity > obs.before.velocity \/ carPhysics.velocity = 250000

\* The tick in which the car, still below it, arrives at MAX_SPEED.
C11_Witness ==
    /\ obs.op = "update"
    /\ obs.before.velocity > 240000
    /\ obs.before.velocity < 250000
    /\ carPhysics.velocity = 250000

----------------------------------------------------------------------------
(* A drift entered at 15 m/s: the drift input and one steering side held   *)
(* (with or without throttle) for half a second of equal ticks.            *)

\* Ticks of the run (0.5 s in ticks of 16 ms).
SlideTicks == 32

SlideInputs ==
    {[NoInput EXCEPT !.drift = TRUE, !.left = TRUE],
     [NoInput EXCEPT !.drift = TRUE, !.right = TRUE],
     [NoInput EXCEPT !.drift = TRUE, !.left = TRUE, !.forward = TRUE],
     [NoInput EXCEPT !.drift = TRUE, !.right = TRUE, !.forward = TRUE]}

SlideDeltaTimes == {160, 300}

InitSlide ==
    StartsAs([NewController EXCEPT !.carPhysics = [NewCarPhysics EXCEPT !.velocity = 150000]])

\* The keys and the tick length chosen in the first tick are kept.
SlideStep ==
    /\ calls < SlideTicks
    /\ \E input \in SlideInputs, deltaTime \in SlideDeltaTimes :
          /\ IF obs.op = "new" THEN TRUE
                              ELSE input = obs.input /\ deltaTime = obs.deltaTime
          /\ calls * deltaTime < 5000
          /\ carPhysics' = CarPhysicsUpdate(carPhysics, deltaTime, input, FALSE, unknown)
          /\ obs' = [op |-> "update", before |-> carPhysics, deltaTime |-> deltaTime,
                     input |-> input, isOffTrack |-> FALSE]
    /\ calls' = calls + 1
    /\ UNCHANGED_Controller

NextSlide == SlideStep

SpecSlide == InitSlide /\ [][NextSlide]_vars

\* C12: with drift and left steer held from velocity 15, no slide and no
\* drift, the lateral velocity is negative from the first tick on and for
\* the rest of the half second; with right steer it is positive.
C12_SlideFollowsSteer ==
    obs.op = "update" =>
        /\ obs.input.left => carPhysics.lateralVelocity < 0
        /\ obs.input.right => carPhysics.lateralVelocity > 0

\* Half a second into the drift with left steer: the slide has grown past
\* its initial impulse, to the left.
C12_Witness ==
    /\ obs.op = "update"
    /\ obs.input.left
    /\ calls * obs.deltaTime >= 5000
    /\ carPhysics.lateralVelocity < -20200

----------------------------------------------------------------------------
(* The controller driven frame by frame: CarController.update with the     *)
(* inputs, the frame time and the scene's answers chosen per frame.        *)

\* The ground under all four wheels is level at height y.
Level(y) == [i \in Wheels |-> [present |-> TRUE, y |-> y]]

\* No ground under any wheel.
NoGround == [i \in Wheels |-> [present |-> FALSE, y |-> 0]]

\* No obstacle on any collision ray.
ClearRays == [k \in 0 .. 3 |-> NoHit]

\* Every trail point lies on the track surface, away from the last point.
AllOnTrack == [w \in RearWheels |-> [onTrack |-> TRUE, far |-> TRUE]]

\* Frame times of the render loop: 16 ms, and a stalled frame of 50 ms that
\* line 365 cuts to 30 ms.
CarDeltaTimes == {160, 500}

\* Key combinations of a drive.
CarInputs ==
    {NoInput,
     [NoInput EXCEPT !.forward = TRUE],
     [NoInput EXCEPT !.backward = TRUE],
     [NoInput EXCEPT !.forward = TRUE, !.left = TRUE],
     [NoInput EXCEPT !.forward = TRUE, !.right = TRUE, !.drift = TRUE],
     [NoInput EXCEPT !.left = TRUE, !.drift = TRUE],
     [NoInput EXCEPT !.backward = TRUE, !.right = TRUE],
     [NoInput EXCEPT !.forward = TRUE, !.drift = TRUE]}

\* What the collision rays meet: nothing; a wall 0.3 m ahead; something
\* behind at exactly the probe distance; a wall 0.2 m to the left with
\* another 0.6 m ahead.
CarRays ==
    {ClearRays,
     [ClearRays EXCEPT ![0] = 3000],
     [ClearRays EXCEPT ![1] = collisionDistance],
     [ClearRays EXCEPT ![0] = 6000, ![2] = 2000]}

\* What the wheel rays meet: level ground at height 0, or nothing.
CarGrounds == {Level(0), NoGround}

\* Controllers a drive passes through: as constructed; cruising at top speed;
\* at top speed 0.4 m short of the +z boundary; rolling outside the -x
\* boundary; in a full drift; falling fast 0.64 m over the ground; reversing
\* at the reverse limit; off track at the off-track limit.
CarGrid ==
    LET cruise == [NewController EXCEPT !.position = [StartPosition EXCEPT !.y = 1500]]
        moving(v) == [NewCarPhysics EXCEPT !.velocity = v]
    IN  {NewController,
         [cruise EXCEPT !.carPhysics = moving(250000)],
         [cruise EXCEPT !.carPhysics = moving(250000),
                        !.position = [x |-> 0, y |-> 1500, z |-> 996000]],
         [cruise EXCEPT !.carPhysics = moving(40000),
                        !.position = [x |-> -1003000, y |-> 1500, z |-> 0]],
         [cruise EXCEPT !.carPhysics =
                            [NewCarPhysics EXCEPT !.velocity = 150000, !.driftFactor = 9900,
                                                  !.lateralVelocity = 60000,
                                                  !.slideDirection = 1,
                                                  !.steeringAngle = -139600,
                                                  !.yawRate = SteerTimesSpeed(-139600, 150000),
                                                  !.slipAngle = Atan2(60000, 150000)],
                        !.position = [x |-> 200000, y |-> 1500, z |-> 300000],
                        !.rotationY = 7000],
         [cruise EXCEPT !.carPhysics = moving(100000),
                        !.position = [x |-> 0, y |-> 6400, z |-> -700000],
                        !.isGrounded = FALSE, !.verticalVelocity = -52000,
                        !.airborneTime = 2600],
         [cruise EXCEPT !.carPhysics = moving(-100000), !.rotationY = 31416],
         [cruise EXCEPT !.carPhysics = moving(150000), !.isOnTrack = FALSE]}

InitCar == \E c \in CarGrid : StartsAs(c)

TickCar ==
    /\ calls < MaxCalls
    /\ \E deltaTime \in CarDeltaTimes, input \in CarInputs, onTrack \in BOOLEAN,
          rays \in CarRays, ground \in CarGrounds :
             Tick(deltaTime, input, onTrack, rays, ground, RearWheels, AllOnTrack)

NextCar == TickCar

SpecCar == InitCar /\ [][NextCar]_vars

----------------------------------------------------------------------------
(* The suspension under varied ground: each wheel's ray finds nothing, the *)
(* ground at height 0, or a ledge 1.65 m up.                               *)

SuspDeltaTimes == {160, 300}

SuspGrounds ==
    [Wheels -> {[present |-> FALSE, y |-> 0], [present |-> TRUE, y |-> 0],
                [present |-> TRUE, y |-> 16500]}]

\* Suspension states of a drive over bumps: at rest; wheels near and at the
\* limit stops, moving toward them.
SuspGrid ==
    LET grounded == [NewController EXCEPT !.position = [StartPosition EXCEPT !.y = 1500]]
        wheel(c, v, h) == [NewSuspension EXCEPT !.compression = c, !.velocity = v,
                                                !.currentHeight = h]
    IN  {grounded,
         [grounded EXCEPT !.suspensionValues =
             [i \in Wheels |-> CASE i = 0 -> wheel(1500, -9000, 520)
                                 [] i = 1 -> wheel(1500, 8000, 3900)
                                 [] i = 2 -> wheel(-200, 0, minSuspension)
                                 [] OTHER -> wheel(900, 2500, 2800)]],
         [grounded EXCEPT !.suspensionValues =
             [i \in Wheels |-> CASE i = 0 -> wheel(18000, 0, maxSuspension)
                                 [] i = 1 -> wheel(1500, -12000, 700)
                                 [] i = 2 -> wheel(1500, 3000, 3950)
                                 [] OTHER -> wheel(1500, -9000, 520)]]}

InitSusp == \E c \in SuspGrid : StartsAs(c)

TickSusp ==
    /\ calls < MaxCalls
    /\ \E deltaTime \in SuspDeltaTimes, ground \in SuspGrounds :
          Tick(deltaTime, NoInput, TRUE, ClearRays, ground, RearWheels, AllOnTrack)

NextSusp == TickSusp

SpecSusp == InitSusp /\ [][NextSusp]_vars

----------------------------------------------------------------------------
(* Flight and landing: CarController.update for cars on and over the       *)
(* ground, at several headings and tilts, over varied ground.              *)

AirDeltaTimes == {160, 300}

AirInputs ==
    {NoInput,
     [NoInput EXCEPT !.forward = TRUE],
     [NoInput EXCEPT !.drift = TRUE, !.left = TRUE],
     [NoInput EXCEPT !.drift = TRUE, !.right = TRUE]}

\* Under the wheels: level ground at 0; nothing; level ground 0.35 m down;
\* nothing under the front-right wheel; a pit under all wheels but the
\* rear-left one; a surface above the origin of the wheel rays.
AirGrounds ==
    {Level(0),
     NoGround,
     Level(-3500),
     [Level(0) EXCEPT ![0] = [present |-> FALSE, y |-> 0]],
     [Level(-30000) EXCEPT ![3] = [present |-> TRUE, y |-> 0]],
     Level(80000)}

\* Cars in the states a jump passes through.  A falling car has the vertical
\* velocity gravity gave it in its time of flight.  Dynamics: cruising at
\* 10 m/s, rolling at 0.74 m/s, and sliding to the right in a drift.
\* Orientation: as constructed; turned beyond a quarter turn; and the same
\* with the tilt a slide leaves behind.
AirGrid ==
    LET flight == {[y |-> 1500, isGrounded |-> TRUE, airborneTime |-> 0],
                   [y |-> 5600, isGrounded |-> FALSE, airborneTime |-> 2600],
                   [y |-> 5200, isGrounded |-> FALSE, airborneTime |-> 500],
                   [y |-> 6000, isGrounded |-> FALSE, airborneTime |-> 2200],
                   [y |-> 30000, isGrounded |-> FALSE, airborneTime |-> 1840],
                   [y |-> 50000, isGrounded |-> FALSE, airborneTime |-> 0]}
        dynamics == {[NewCarPhysics EXCEPT !.velocity = 100000],
                     [NewCarPhysics EXCEPT !.velocity = 7400],
                     [NewCarPhysics EXCEPT !.velocity = 100000, !.driftFactor = 6000,
                                           !.lateralVelocity = 20000, !.slideDirection = 1,
                                           !.steeringAngle = -100000,
                                           !.yawRate = SteerTimesSpeed(-100000, 100000),
                                           !.slipAngle = Atan2(20000, 100000)]}
        orientation == {[x |-> 0, y |-> 0, z |-> 0],
                        [x |-> 0, y |-> 20000, z |-> 0],
                        [x |-> 200, y |-> 20000, z |-> -1000],
                        [x |-> 200, y |-> 5000, z |-> -1000]}
    IN  {[NewController EXCEPT !.position = [StartPosition EXCEPT !.y = f.y],
                               !.isGrounded = f.isGrounded,
                               !.airborneTime = f.airborneTime,
                               !.verticalVelocity = -20 * f.airborneTime,
                               !.carPhysics = p,
                               !.rotationX = o.x, !.rotationY = o.y, !.rotationZ = o.z] :
            f \in flight, p \in dynamics, o \in orientation}

InitAir == \E c \in AirGrid : StartsAs(c)

TickAir ==
    /\ calls < MaxCalls
    /\ \E deltaTime \in AirDeltaTimes, input \in AirInputs, ground \in AirGrounds :
          Tick(deltaTime, input, TRUE, ClearRays, ground, RearWheels, AllOnTrack)

NextAir == TickAir

SpecAir == InitAir /\ [][NextAir]_vars

----------------------------------------------------------------------------
(* The engine's life: frames of a running engine, GameEngine.dispose (the  *)
(* unmount of App.tsx) and CarController.dispose, from a fresh engine and  *)
(* from engines whose car is drifting with ribbons active and fading.      *)

\* Frame times: 16 ms, 30 ms, and a stalled frame of 60 ms.
SceneDeltaTimes == {160, 300, 600}

SceneInputs ==
    {NoInput,
     [NoInput EXCEPT !.forward = TRUE],
     [NoInput EXCEPT !.drift = TRUE, !.right = TRUE],
     [NoInput EXCEPT !.backward = TRUE]}

\* Under the rear wheels: track; grass under the left one; and track with
\* the right wheel still within MIN_DISTANCE of its last point (the car was
\* held in place by an obstacle).
SceneSurfaces ==
    {AllOnTrack,
     [AllOnTrack EXCEPT !["rear-left"].onTrack = FALSE],
     [AllOnTrack EXCEPT !["rear-right"].far = FALSE]}

\* The car in a drift at full lock.
Drifter ==
    [NewController EXCEPT
        !.carPhysics = [NewCarPhysics EXCEPT !.velocity = 150000, !.driftFactor = 9900,
                                             !.lateralVelocity = 60000,
                                             !.slideDirection = 1,
                                             !.steeringAngle = -139600,
                                             !.yawRate = SteerTimesSpeed(-139600, 150000),
                                             !.slipAngle = Atan2(60000, 150000)],
        !.position = [x |-> 200000, y |-> 1500, z |-> 300000],
        !.rotationY = 7000]

\* Trail systems of a drift under way: a ribbon per rear wheel; a new ribbon
\* on grass with a full ribbon and a nearly faded one fading; ribbons fading
\* only; and a system that has released its first ribbon already.
SceneTrails ==
    LET ribbon(n, m, h, a) == [id |-> n, material |-> m, head |-> h, alpha |-> a]
        system(right, left, fading, made, gone) ==
            [activeRibbons |-> [w \in RearWheels |-> IF w = "rear-right" THEN right ELSE left],
             fadingRibbons |-> fading,
             made |-> made,
             scene |-> {CarGroupObject}
                           \cup {RibbonMesh(r) : r \in ({right, left} \ {NoRibbon}) \cup fading},
             released |-> {RibbonGeometry(r) : r \in gone}]
    IN  {system(ribbon(1, "trackMaterial", 5, 6487), ribbon(2, "trackMaterial", 5, 6487),
                {}, 2, {}),
         system(NoRibbon, ribbon(3, "grassMaterial", 1, 6487),
                {ribbon(1, "trackMaterial", 200, 3000), ribbon(2, "trackMaterial", 1, 20)},
                3, {}),
         system(NoRibbon, NoRibbon,
                {ribbon(1, "trackMaterial", 40, 5000), ribbon(2, "trackMaterial", 40, 5000)},
                2, {}),
         system(ribbon(2, "trackMaterial", 200, 6487), ribbon(3, "trackMaterial", 9, 6487),
                {}, 3, {ribbon(1, "trackMaterial", 3, 0)})}

\* The car at the end of a drift along a straight: the drift factor is still
\* high, the speed has fallen under 5 m/s, nothing slides.
Coaster ==
    [Drifter EXCEPT !.carPhysics = [NewCarPhysics EXCEPT !.velocity = 46000,
                                                         !.driftFactor = 9000]]

\* The car sliding at a speed that the next frame takes under 3 m/s.
Slower ==
    [Drifter EXCEPT !.carPhysics = [NewCarPhysics EXCEPT !.velocity = 30500,
                                                         !.lateralVelocity = 20000,
                                                         !.slideDirection = 1,
                                                         !.slipAngle = Atan2(20000, 30500)]]

SceneCars == {Drifter, Coaster, Slower}

\* The clock at the start of a frame: 1 s after construction, the last trail
\* points laid 60 ms ago, or laid by the frame that has just ended.
SceneClocks == {[lastTrailTime |-> 9400, now |-> 10000],
                [lastTrailTime |-> 10000, now |-> 10000]}

InitScene ==
    \/ StartsAs(NewController)
    \/ \E c \in SceneCars, t \in SceneTrails, k \in SceneClocks :
          StartsWith(c, t,
                     [wasTrailing |-> \/ \E w \in RearWheels : t.activeRibbons[w] # NoRibbon
                                      \/ k.lastTrailTime = k.now,
                      lastTrailTime |-> k.lastTrailTime, now |-> k.now])

\* GameEngine.animate (150-172): a frame, while the engine runs.
SceneTick ==
    /\ isRunning
    /\ calls < MaxCalls
    /\ \E deltaTime \in SceneDeltaTimes, input \in SceneInputs, ground \in CarGrounds,
          trailHits \in SUBSET RearWheels, trailOnTrack \in SceneSurfaces :
             Tick(deltaTime, input, TRUE, ClearRays, ground, trailHits, trailOnTrack)

\* GameEngine.dispose (192-206): the loop is stopped, the input manager and
\* the renderer are disposed, the canvas is taken out of the page.
DisposeEngine ==
    /\ isRunning' = FALSE
    /\ engine' = engineDispose(engine)
    /\ released' = released \cup {[kind |-> "renderer", id |-> 0],
                                  [kind |-> "inputManager", id |-> 0]}
    /\ calls' = calls + 1
    /\ obs' = [op |-> "GameEngine.dispose"]
    /\ UNCHANGED <<carPhysics, position, rotationY, rotationX, rotationZ, isOnTrack,
                   verticalVelocity, isGrounded, airborneTime, suspensionValues,
                   lastTrailTime, wasTrailing, now, hasGroundObjects, trailSystem, scene,
                   unknown>>

GameEngineDispose == calls < MaxCalls /\ DisposeEngine

\* CarController.dispose (833-835).
CarControllerDispose ==
    /\ calls < MaxCalls
    /\ \E t \in {trailSystemDispose(TrailState)} :
          /\ trailSystem' = [activeRibbons |-> t.activeRibbons,
                             fadingRibbons |-> t.fadingRibbons, made |-> t.made]
          /\ scene' = t.scene
          /\ released' = t.released
    /\ calls' = calls + 1
    /\ obs' = [op |-> "CarController.dispose"]
    /\ UNCHANGED <<carPhysics, position, rotationY, rotationX, rotationZ, isOnTrack,
                   verticalVelocity, isGrounded, airborneTime, suspensionValues,
                   lastTrailTime, wasTrailing, now, hasGroundObjects, isRunning, engine,
                   unknown>>

NextScene == SceneTick \/ GameEngineDispose \/ CarControllerDispose

SpecScene == InitScene /\ [][NextScene]_vars

----------------------------------------------------------------------------
(* A drive over the edge of the map: the car reaches the +z boundary at    *)
(* top speed on level ground, nothing in its way, with one key state held  *)
(* for the whole run and frames of 30 ms.                                  *)

\* Frames of the run.
EdgeTicks == 90

EdgeInputs == {[NoInput EXCEPT !.forward = TRUE], NoInput,
               [NoInput EXCEPT !.backward = TRUE]}

EdgeCar ==
    [NewController EXCEPT !.carPhysics = [NewCarPhysics EXCEPT !.velocity = 250000],
                          !.position = [x |-> 0, y |-> 1500, z |-> 996000]]

InitEdge == StartsAs(EdgeCar)

EdgeStep ==
    /\ calls < EdgeTicks
    /\ \E input \in EdgeInputs :
          /\ IF obs.op = "new" THEN TRUE ELSE input = obs.input
          /\ Tick(300, input, TRUE, ClearRays, Level(0), RearWheels, AllOnTrack)

NextEdge == EdgeStep

SpecEdge == InitEdge /\ [][NextEdge]_vars

----------------------------------------------------------------------------
(* The engine from construction on: start(), dispose(), the animation      *)
(* frames the browser fires, and the key and resize events of the window,  *)
(* in any order.                                                           *)

\* Calls and events explored after construction.
EngineCalls == 4

EngineDeltaTimes == {160, 300}

\* Lines 367-383: the input snapshot read from the key map.
InputOf(e) == [NoInput EXCEPT !.forward = isKeyPressed(e, "q")]

InitEngine ==
    /\ CarStartsWith(NewController, NewTrailSystem({CarGroupObject}),
                     [wasTrailing |-> FALSE, lastTrailTime |-> 0, now |-> 0])
    /\ isRunning = FALSE
    /\ engine \in {NewEngine(r) : r \in InputManagerRevisions}

\* A step of the engine that leaves the car and its trails alone.
UNCHANGED_Car ==
    UNCHANGED <<carPhysics, position, rotationY, rotationX, rotationZ, isOnTrack,
                verticalVelocity, isGrounded, airborneTime, suspensionValues, lastTrailTime,
                wasTrailing, now, hasGroundObjects, trailSystem, scene, released, unknown>>

\* GameEngine.start (142-147): nothing when running; else the clock is
\* started and animate() runs at once, asking for the next frame and updating
\* the car with the first delta of the clock.
EngineStart ==
    /\ calls < EngineCalls
    /\ IF isRunning
       THEN /\ calls' = calls + 1
            /\ obs' = [op |-> "start", updated |-> FALSE]
            /\ UNCHANGED <<isRunning, engine>>
            /\ UNCHANGED_Car
       ELSE /\ isRunning' = TRUE
            /\ engine' = [engine EXCEPT !.scheduled = @ + 1]
            /\ Update(0, InputOf(engine), TRUE, ClearRays, Level(0), RearWheels, AllOnTrack)

\* A frame asked for by requestAnimationFrame fires: animate (150-172)
\* returns when the engine is not running; else it asks for the next frame
\* and updates the car.
AnimateFrame ==
    /\ calls < EngineCalls
    /\ engine.scheduled > 0
    /\ UNCHANGED isRunning
    /\ IF isRunning
       THEN /\ UNCHANGED engine
            /\ \E deltaTime \in EngineDeltaTimes :
                  Update(deltaTime, InputOf(engine), TRUE, ClearRays, Level(0), RearWheels,
                         AllOnTrack)
       ELSE /\ engine' = [engine EXCEPT !.scheduled = @ - 1]
            /\ calls' = calls + 1
            /\ obs' = [op |-> "frame", updated |-> FALSE]
            /\ UNCHANGED_Car

EngineDispose == calls < EngineCalls /\ DisposeEngine

\* The window's events, delivered to the listeners registered at the time.
WindowKeyDown ==
    /\ calls < EngineCalls
    /\ \E key \in Keys :
          /\ engine' = keydown(engine, key)
          /\ obs' = [op |-> "keydown", key |-> key, engineBefore |-> engine]
    /\ calls' = calls + 1
    /\ UNCHANGED isRunning
    /\ UNCHANGED_Car

WindowKeyUp ==
    /\ calls < EngineCalls
    /\ \E key \in Keys :
          /\ engine' = keyup(engine, key)
          /\ obs' = [op |-> "keyup", key |-> key, engineBefore |-> engine]
    /\ calls' = calls + 1
    /\ UNCHANGED isRunning
    /\ UNCHANGED_Car

WindowResize ==
    /\ calls < EngineCalls
    /\ engine' = resize(engine)
    /\ obs' = [op |-> "resize", engineBefore |-> engine]
    /\ calls' = calls + 1
    /\ UNCHANGED isRunning
    /\ UNCHANGED_Car

NextEngine ==
    \/ EngineStart
    \/ AnimateFrame
    \/ EngineDispose
    \/ WindowKeyDown
    \/ WindowKeyUp
    \/ WindowResize

SpecEngine == InitEngine /\ [][NextEngine]_vars

----------------------------------------------------------------------------
(* The trail system on its own: addTrail, breakAllTrails, update and       *)
(* dispose called in any order, from a new system and from the systems of  *)
(* a drift under way.  update is called again and again.                   *)

\* Calls of addTrail, breakAllTrails and dispose explored.
TrailCalls == 2

\* Time between two calls of update (its own clock's delta): 2 s and 4 s, a
\* page in the background, so that a new ribbon is released after three to
\* five calls.
TrailDeltaTimes == {20000, 40000}

InitTrail ==
    /\ \E t \in SceneTrails \cup {NewTrailSystem({CarGroupObject})} :
          StartsWith(NewController, t,
                     [wasTrailing |-> FALSE, lastTrailTime |-> 0, now |-> 0])
    /\ unknown.slipKeep = 0

\* A call into the trail system: the variables take the system t.
TrailBecomes(t, call) ==
    /\ trailSystem' = [activeRibbons |-> t.activeRibbons,
                       fadingRibbons |-> t.fadingRibbons, made |-> t.made]
    /\ scene' = t.scene
    /\ released' = t.released
    /\ obs' = call @@ [before |-> TrailState]
    /\ UNCHANGED <<carPhysics, position, rotationY, rotationX, rotationZ, isOnTrack,
                   verticalVelocity, isGrounded, airborneTime, suspensionValues,
                   lastTrailTime, wasTrailing, now, hasGroundObjects, isRunning, engine,
                   unknown>>

TrailAdd ==
    /\ calls < TrailCalls
    /\ calls' = calls + 1
    /\ \E wheelId \in RearWheels, onTrack \in BOOLEAN, far \in BOOLEAN :
          TrailBecomes(addTrail(TrailState, wheelId, onTrack, far),
                       [op |-> "addTrail", wheelId |-> wheelId, isOnTrack |-> onTrack])

TrailBreak ==
    /\ calls < TrailCalls
    /\ calls' = calls + 1
    /\ TrailBecomes(breakAllTrails(TrailState), [op |-> "breakAllTrails"])

TrailUpdate ==
    /\ UNCHANGED calls
    /\ \E dt \in TrailDeltaTimes :
          TrailBecomes(trailSystemUpdate(TrailState, dt), [op |-> "update", dt |-> dt])

TrailDispose ==
    /\ calls < TrailCalls
    /\ calls' = calls + 1
    /\ TrailBecomes(trailSystemDispose(TrailState), [op |-> "dispose"])

NextTrail == TrailAdd \/ TrailBreak \/ TrailUpdate \/ TrailDispose

SpecTrail == InitTrail /\ [][NextTrail]_vars

\* update keeps being called.
SpecFade == SpecTrail /\ WF_vars(TrailUpdate)

----------------------------------------------------------------------------
(* Claims about a frame of the controller, checked under SpecCar.          *)

\* reverseVelocity was called in the last frame by the named response.
Reversed(by) == \E k \in DOMAIN obs.reversals : obs.reversals[k] = by

\* C1: when CarController.update returns, the velocity lies in
\* [MAX_REVERSE_SPEED, maxSpeed(isOffTrack)], the collision, boundary and
\* landing responses included.
C1_SpeedWithinLimits ==
    obs.op = "tick" =>
        /\ carPhysics.velocity >= -100000
        /\ carPhysics.velocity <= (IF obs.isOffTrack THEN 150000 ELSE 250000)

\* C2 as stated: in a frame with a collision the position after the
\* collision step is the position before the frame.
C2_PositionUnchanged ==
    (obs.op = "tick" /\ obs.hasCollision) => obs.positionAfterCollision = obs.positionBefore

\* C2 amended: in a frame with a collision the tentative position is not
\* taken; the position after the collision step is the position before the
\* frame moved horizontally, straight away from the collision point, by at
\* most 0.05 * |velocity| (the height is unchanged).
C2_PositionPushedOut ==
    (obs.op = "tick" /\ obs.hasCollision) =>
        LET dx == obs.positionAfterCollision.x - obs.positionBefore.x
            dz == obs.positionAfterCollision.z - obs.positionBefore.z
            ax == obs.positionBefore.x - obs.collisionPoint.x
            az == obs.positionBefore.z - obs.collisionPoint.z
            pushForce == (Abs(obs.velocityAfterUpdate) * 5) \div 100
        IN  /\ obs.positionAfterCollision.y = obs.positionBefore.y
            /\ dx * dx + dz * dz <= (pushForce + 2) * (pushForce + 2)
            /\ dx * ax + dz * az >= 0
            /\ Abs(dx * az - dz * ax) <= Abs(ax) + Abs(az) + 2

\* A car hit a wall at speed and was moved off its previous position.
C2_Witness ==
    /\ obs.op = "tick"
    /\ obs.hasCollision
    /\ Abs(obs.velocityAfterUpdate) > 100000
    /\ obs.positionAfterCollision # obs.positionBefore
    /\ obs.positionAfterCollision # obs.newPosition

\* C3: in a frame with a collision the velocity after the collision response
\* is -0.5 times the velocity the dynamics update produced in that frame
\* (to the nearest quantum).
C3_VelocityHalvedAndFlipped ==
    (obs.op = "tick" /\ obs.hasCollision) =>
        Abs(2 * obs.velocityAfterCollision + obs.velocityAfterUpdate) <= 1

\* A collision at more than 20 m/s forward sent the car backward.
C3_Witness ==
    /\ obs.op = "tick"
    /\ obs.hasCollision
    /\ obs.velocityAfterUpdate > 200000
    /\ obs.velocityAfterCollision < 0

\* C4: the boundary check calls reverseVelocity(0.5) exactly when the
\* position after the collision step has |x| > 100 m or |z| > 100 m, and it
\* leaves the position alone.
C4_BoundaryReversal ==
    obs.op = "tick" =>
        LET outside == \/ Abs(obs.positionAfterCollision.x) > 1000000
                       \/ Abs(obs.positionAfterCollision.z) > 1000000
        IN  /\ Reversed("boundary") <=> outside
            /\ IF outside
               THEN Abs(2 * obs.velocityAfterBoundary + obs.velocityAfterCollision) <= 1
               ELSE obs.velocityAfterBoundary = obs.velocityAfterCollision
            /\ position.x = obs.positionAfterCollision.x
            /\ position.z = obs.positionAfterCollision.z

\* The car drove over the +z boundary without a collision, and was turned
\* back by the boundary check.
C4_Witness ==
    /\ obs.op = "tick"
    /\ ~obs.hasCollision
    /\ obs.positionBefore.z <= 1000000
    /\ obs.positionAfterCollision.z > 1000000
    /\ Reversed("boundary")
    /\ obs.velocityAfterBoundary < 0

----------------------------------------------------------------------------
(* Claims about the suspension, checked under SpecSusp.                    *)

\* C5: every wheel's currentHeight is within [minSuspension, maxSuspension]
\* in every state, and a wheel whose height a frame has just stopped at a
\* bound has spring velocity 0.
C5_SuspensionWithinStops ==
    \A i \in Wheels :
        /\ suspensionValues[i].currentHeight >= 500
        /\ suspensionValues[i].currentHeight <= 4000
        /\ (obs.op = "tick" /\ obs.clamped[i]) =>
              /\ suspensionValues[i].velocity = 0
              /\ suspensionValues[i].currentHeight \in {500, 4000}

\* In one frame a moving wheel was stopped at the upper bound and another at
\* the lower bound.
C5_Witness ==
    /\ obs.op = "tick"
    /\ \E i, j \in Wheels :
          /\ obs.clamped[i] /\ obs.suspensionBefore[i].velocity > 0
          /\ suspensionValues[i].currentHeight = 4000
          /\ obs.clamped[j] /\ obs.suspensionBefore[j].velocity < 0
          /\ suspensionValues[j].currentHeight = 500

\* C9: a wheel whose downward ray reports no hit in a frame keeps its
\* compression, spring velocity and currentHeight, whatever the other
\* wheels' rays report.
C9_NoHitHoldsSuspension ==
    obs.op = "tick" =>
        \A i \in Wheels : ~obs.wheelHit[i] => suspensionValues[i] = obs.suspensionBefore[i]

\* Terrain following ran; a wheel in motion found no ground and kept its
\* state while another wheel's suspension moved.
C9_Witness ==
    /\ obs.op = "tick"
    /\ obs.terrainRan
    /\ \E i, j \in Wheels :
          /\ ~obs.wheelHit[i]
          /\ obs.suspensionBefore[i].velocity # 0
          /\ suspensionValues[i] = obs.suspensionBefore[i]
          /\ obs.wheelHit[j]
          /\ suspensionValues[j] # obs.suspensionBefore[j]

\* C26: in a tick in which a collision is flagged and the dynamics update
\* produced a velocity v # 0, the velocity at the end of the tick has the
\* sign opposite to v, whatever the boundary check and the landing response
\* do later in the tick.
C26_BounceAwayFromObstacle ==
    obs.op = "tick" /\ obs.hasCollision /\ obs.velocityAfterUpdate # 0 =>
        Sign(carPhysics.velocity) = -Sign(obs.velocityAfterUpdate)

----------------------------------------------------------------------------
(* Claims about the edge of the map, checked under SpecEdge.               *)

\* C27: with dt <= 0.03 the position never ends a tick farther outside the
\* map bounds than the car travels in one tick at top speed (0.75 m): |x| and
\* |z| stay within mapRadius + 0.75.
C27_StaysNearTheMap ==
    /\ Abs(position.x) <= mapRadius + 7500
    /\ Abs(position.z) <= mapRadius + 7500

----------------------------------------------------------------------------
(* Claims about flight and landing, checked under SpecAir.                 *)

\* C18: with a ground or track mesh present, a grounded-ness evaluation finds
\* the car grounded if and only if some wheel ray hits and the smallest
\* clearance (wheel height minus hit height) over the hitting rays is below
\* 0.5; without any hit the car is not grounded.  Both evaluations of a tick
\* are covered: the one at its start and the one after the fall.
C18_GroundedIffClearanceBelowHalf ==
    obs.op = "tick" /\ hasGroundObjects =>
        LET Near(h) == \E i \in Wheels :
                          /\ obs.ground[i].present
                          /\ obs.ground[i].y <= h + 20000
                          /\ h - obs.ground[i].y < 5000
        IN  /\ (isGrounded /\ ~obs.landed) <=> Near(obs.wheelHeightAtStart)
            /\ ~Near(obs.wheelHeightAtStart) =>
                   (isGrounded <=> Near(obs.wheelHeightAfterFall))

\* Every wheel ray hits with a clearance of exactly 0.5: not grounded.
C18_Witness ==
    /\ obs.op = "tick"
    /\ hasGroundObjects
    /\ ~obs.groundedAtStart
    /\ \A i \in Wheels : /\ obs.ground[i].present
                         /\ obs.wheelHeightAtStart - obs.ground[i].y = 5000

\* C19: a car found airborne at the start of the tick and grounded after the
\* fall lands with impact = |verticalVelocity|: above 5 the vertical velocity
\* becomes 0.3 * impact and, if |velocity| > 0.5, the velocity is reversed at
\* factor 0.2; otherwise the vertical velocity is 0 and the dynamics are
\* left as they were.
C19_LandingResponse ==
    obs.op = "tick" /\ ~obs.groundedAtStart /\ isGrounded =>
        LET impact == Abs(obs.verticalVelocityBefore - 20 * obs.dt)
            v == obs.beforeGravity.velocity
        IN  IF impact > 50000
            THEN /\ Abs(10 * verticalVelocity - 3 * impact) <= 5
                 /\ IF Abs(v) > 5000
                    THEN /\ Abs(10 * carPhysics.velocity + 2 * v) <= 5
                         /\ obs.reversals = <<"landing">>
                    ELSE carPhysics = obs.beforeGravity /\ obs.reversals = <<>>
            ELSE /\ verticalVelocity = 0
                 /\ carPhysics = obs.beforeGravity
                 /\ obs.reversals = <<>>

\* A hard landing at speed: the car bounces and its velocity is reversed.
C19_Witness ==
    /\ obs.op = "tick"
    /\ ~obs.groundedAtStart
    /\ isGrounded
    /\ verticalVelocity > 15000
    /\ obs.beforeGravity.velocity > 5000
    /\ carPhysics.velocity < 0

\* C20: at the end of a tick in which the car, airborne at the start-of-tick
\* check, is grounded after gravity was applied, airborneTime is 0.
C20_AirborneTimeZeroAfterLanding ==
    obs.op = "tick" /\ ~obs.groundedAtStart /\ isGrounded => airborneTime = 0

\* C14: in a tick that ends airborne with airborneTime > 0.2 the pitch and the
\* roll move toward 0 and the heading stays what it was; with airborneTime
\* <= 0.2 the orientation is left as the tilt step made it; and in a tick
\* that ends airborne the terrain step has not run (no wheel ray result, the
\* suspension and the height as the fall left them).
C14_AirborneLevelling ==
    obs.op = "tick" /\ ~isGrounded =>
        /\ airborneTime > 2000 =>
              /\ Abs(rotationX) <= Abs(obs.tilted.x)
              /\ Abs(rotationZ) <= Abs(obs.tilted.z)
              /\ Sin(rotationY) = Sin(obs.tilted.y)
              /\ Cos(rotationY) = Cos(obs.tilted.y)
        /\ airborneTime <= 2000 =>
              /\ rotationX = obs.tilted.x
              /\ rotationY = obs.tilted.y
              /\ rotationZ = obs.tilted.z
        /\ ~obs.terrainRan
        /\ suspensionValues = obs.suspensionBefore
        /\ position.y = obs.wheelHeightAfterFall

C21_NoHitsHoldHeight ==
    obs.op = "tick"
        /\ (\A i \in Wheels : ~RayHits(obs.ground[i], obs.wheelHeightAtStart)) =>
            /\ position.y = obs.positionBefore.y
            /\ verticalVelocity = obs.verticalVelocityBefore

----------------------------------------------------------------------------
(* Claims about the engine's life, checked under SpecScene.                *)

\* C15: after GameEngine.dispose and after CarController.dispose, whether
\* called before any tick or with ribbons active or fading, nothing of the
\* car controller is left in the scene (car group, ribbon meshes), no ribbon
\* is held, and the geometry of every ribbon made and both trail materials
\* have been released.
C15_DisposeReleasesEverything ==
    obs.op \in {"GameEngine.dispose", "CarController.dispose"} =>
        /\ scene = {}
        /\ \A w \in RearWheels : trailSystem.activeRibbons[w] = NoRibbon
        /\ trailSystem.fadingRibbons = {}
        /\ TrailMaterials \subseteq released
        /\ \A n \in 1 .. trailSystem.made : [kind |-> "geometry", id |-> n] \in released

\* What the trail system holds for a wheel and how many points it has.
PointsOf(t, w) == t.activeRibbons[w].head

\* C22: at the end of each tick trail emission is requested exactly when
\* (isDrifting or hasSlide) and speed > 3 and isGrounded, where isDrifting is
\* driftFactor > 0.1, hasSlide is |slipAngle| > 0.03 or |lateralVelocity| >
\* 0.8 and speed is |velocity|; no trail point is created in a tick in which
\* the car is not grounded.
C22_TrailWhenDriftFactorHigh ==
    obs.op = "tick" =>
        LET speed == Abs(obs.velocityAfterUpdate)
            hasSlide == Abs(carPhysics.slipAngle) > 300
                            \/ Abs(obs.afterUpdate.lateralVelocity) > 8000
        IN  /\ obs.shouldTrail <=>
                   (carPhysics.driftFactor > 1000 \/ hasSlide) /\ speed > 30000 /\ isGrounded
            /\ ~isGrounded => obs.afterSignal.made = obs.trailBefore.made
                               /\ \A w \in RearWheels :
                                     PointsOf(obs.afterSignal, w) <= PointsOf(obs.trailBefore, w)

\* C22 as the code has it: the drift counts for the trail only above 5 m/s,
\* so trail emission is requested exactly when ((driftFactor > 0.1 and speed
\* > 5) or hasSlide) and speed > 3 and isGrounded, with the speed and the
\* lateral velocity read right after the dynamics update; no ribbon is made
\* and no point added in a tick in which the car is not grounded.
C22_TrailWhenDriftingAboveFive ==
    obs.op = "tick" =>
        LET speed == Abs(obs.velocityAfterUpdate)
            hasSlide == Abs(carPhysics.slipAngle) > 300
                            \/ Abs(obs.afterUpdate.lateralVelocity) > 8000
        IN  /\ obs.shouldTrail <=>
                   /\ (carPhysics.driftFactor > 1000 /\ speed > 50000) \/ hasSlide
                   /\ speed > 30000
                   /\ isGrounded
            /\ wasTrailing = obs.shouldTrail
            /\ ~isGrounded => obs.afterSignal.made = obs.trailBefore.made
                               /\ \A w \in RearWheels :
                                     PointsOf(obs.afterSignal, w) <= PointsOf(obs.trailBefore, w)

\* A grounded car with a high drift factor between 3 and 5 m/s and no slide
\* asks for no trail.
C22_Witness ==
    /\ obs.op = "tick"
    /\ isGrounded
    /\ carPhysics.driftFactor > 1000
    /\ Abs(obs.velocityAfterUpdate) > 30000
    /\ Abs(obs.velocityAfterUpdate) <= 50000
    /\ ~obs.shouldTrail

\* The ribbons a trail system holds for the rear wheels.
ActiveOf(t) == {t.activeRibbons[w] : w \in RearWheels} \ {NoRibbon}

\* C23: breakAllTrails is signalled in a tick exactly when trailing was
\* requested in the previous tick and is not requested in this one: never
\* while trailing is requested, never after a tick without trailing.  It
\* retires every active ribbon, and a point laid after a gap starts a ribbon
\* of its own, made in that tick, while the ribbons from before stay as they
\* were.
C23_BreakOnFallingEdge ==
    obs.op = "tick" =>
        /\ obs.trailsBroken <=> obs.wasTrailingBefore /\ ~obs.shouldTrail
        /\ obs.trailsBroken =>
               /\ ActiveOf(obs.afterSignal) = {}
               /\ obs.afterSignal.fadingRibbons =
                      obs.trailBefore.fadingRibbons \cup ActiveOf(obs.trailBefore)
               /\ obs.afterSignal.made = obs.trailBefore.made
        /\ ~obs.wasTrailingBefore =>
               /\ ActiveOf(obs.trailBefore) = {}
               /\ obs.afterSignal.fadingRibbons = obs.trailBefore.fadingRibbons
               /\ \A r \in ActiveOf(obs.afterSignal) :
                      r.id > obs.trailBefore.made /\ r.head = 1
        /\ ~wasTrailing => ActiveOf(TrailState) = {}

\* A falling edge with a ribbon per rear wheel: both are retired.
C23_Witness ==
    /\ obs.op = "tick"
    /\ obs.wasTrailingBefore
    /\ ~obs.shouldTrail
    /\ obs.trailsBroken
    /\ \A w \in RearWheels : obs.trailBefore.activeRibbons[w] # NoRibbon
    /\ ActiveOf(TrailState) = {}

\* C24: while trailing is requested, trail-creation events are at most one
\* per TRAIL_SPAWN_INTERVAL of simulated time (the time the ticks advance the
\* simulation by): a tick that emits right after a tick that emitted has
\* advanced the simulation by more than 0.05 s; and lastTrailTime changes
\* only in a tick that emits.
C24_EmissionsApartInSimulatedTime ==
    obs.op = "tick" =>
        /\ obs.signal = "create" /\ obs.lastTrailTimeBefore = obs.nowBefore =>
               obs.dt > TRAIL_SPAWN_INTERVAL
        /\ lastTrailTime # obs.lastTrailTimeBefore => obs.signal = "create"

----------------------------------------------------------------------------
(* Claims about the engine from construction on, checked under SpecEngine. *)

\* C25: after GameEngine.dispose() the window listeners registered by the
\* GameEngine constructor ('resize', 'keydown') and by InputManager
\* ('keydown', 'keyup') are no longer registered; no key or resize event
\* delivered after dispose changes the camera mode, the camera or the key
\* state, and isKeyPressed is false for every key.
C25_ListenersGoneAfterDispose ==
    ~engine.attached =>
        /\ engine.listeners = {}
        /\ \A key \in Keys : ~isKeyPressed(engine, key)
        /\ obs.op \in {"keydown", "keyup", "resize"} =>
               /\ engine.cameraMode = obs.engineBefore.cameraMode
               /\ engine.aspect = obs.engineBefore.aspect
               /\ engine.keys = obs.engineBefore.keys

\* C28: after any sequence of start() and dispose() calls interleaved with
\* pending animation-frame callbacks, at most one animate callback is
\* scheduled at any time.
C28_OneAnimationLoop == engine.scheduled <= 1

----------------------------------------------------------------------------
(* Claims about the trail system, checked under SpecTrail and SpecFade.    *)

\* The numbers of the ribbons in a set.
IdsOf(ribbons) == {r.id : r \in ribbons}

\* The numbers of the ribbon meshes in the scene.
RibbonsInScene == {o.id : o \in {x \in scene : x.kind = "ribbon"}}

\* C29: after any sequence of addTrail, breakAllTrails, update and dispose
\* calls each wheel has at most one active ribbon of its own, no ribbon is
\* both active and fading, the ribbon meshes in the scene are exactly the
\* active and the fading ribbons, no ribbon holds more than MAX_POINTS
\* points, and after addTrail the wheel's active ribbon has the material of
\* the surface under the point; a ribbon that was full or of the other
\* material has been retired to fading and the point starts a new ribbon.
C29_RibbonBookkeeping ==
    /\ \A v, w \in RearWheels :
           v # w /\ trailSystem.activeRibbons[v] # NoRibbon =>
               trailSystem.activeRibbons[v].id # trailSystem.activeRibbons[w].id
    /\ IdsOf(ActiveOf(TrailState)) \cap IdsOf(trailSystem.fadingRibbons) = {}
    /\ RibbonsInScene = IdsOf(ActiveOf(TrailState)) \cup IdsOf(trailSystem.fadingRibbons)
    /\ \A r \in ActiveOf(TrailState) \cup trailSystem.fadingRibbons :
           r.head >= 1 /\ r.head <= MAX_POINTS
    /\ obs.op = "addTrail" =>
           LET old == obs.before.activeRibbons[obs.wheelId]
               new == trailSystem.activeRibbons[obs.wheelId]
               material == IF obs.isOnTrack THEN "trackMaterial" ELSE "grassMaterial"
           IN  /\ new # NoRibbon
               /\ new.material = material
               /\ old # NoRibbon /\ (old.head >= MAX_POINTS \/ old.material # material) =>
                      /\ old \in trailSystem.fadingRibbons
                      /\ new.id = trailSystem.made
                      /\ new.id # old.id
                      /\ new.head = 1
               /\ old # NoRibbon /\ old.head < MAX_POINTS /\ old.material = material =>
                      /\ new.id = old.id
                      /\ new.head \in {old.head, old.head + 1}

\* addTrail for a wheel whose ribbon is full: the full ribbon fades, the
\* point starts a new one.
C29_Witness ==
    /\ obs.op = "addTrail"
    /\ obs.before.activeRibbons[obs.wheelId] # NoRibbon
    /\ obs.before.activeRibbons[obs.wheelId].head = MAX_POINTS
    /\ obs.before.activeRibbons[obs.wheelId] \in trailSystem.fadingRibbons
    /\ trailSystem.activeRibbons[obs.wheelId].head = 1

\* C30: every ribbon moved to the fading list is, with update called again
\* and again with positive elapsed time, eventually out of the scene and
\* disposed; a ribbon still held (active or fading) has not been disposed,
\* so none is disposed twice, also when dispose follows; and update leaves
\* the active ribbons active and in the scene.
C30_FadingRibbonsReleasedOnce ==
    /\ [](\A r \in ActiveOf(TrailState) \cup trailSystem.fadingRibbons :
             RibbonGeometry(r) \notin released)
    /\ [](obs.op = "update" =>
             /\ IdsOf(ActiveOf(TrailState)) = IdsOf(ActiveOf(obs.before))
             /\ IdsOf(ActiveOf(TrailState)) \subseteq RibbonsInScene)
    /\ \A n \in 1 .. 3 + TrailCalls :
           (n \in IdsOf(trailSystem.fadingRibbons))
               ~> /\ [kind |-> "geometry", id |-> n] \in released
                  /\ n \notin RibbonsInScene
                  /\ n \notin IdsOf(trailSystem.fadingRibbons)

\* A ribbon retired by breakAllTrails has faded out and update has taken it
\* out of the scene and disposed it, the ribbons made later being held still.
C30_Witness ==
    /\ obs.op = "update"
    /\ \E r \in obs.before.fadingRibbons :
          /\ r.alpha > 10
          /\ RibbonGeometry(r) \in released
          /\ r.id \notin RibbonsInScene
    /\ trailSystem.fadingRibbons # {}

============================================================================
